---- MODULE Spec2Model ----
(***************************************************************************)
(* Model of mongoose-tracker (src/src/index.ts): the field pattern         *)
(* matcher, the reference resolver, the array differ, the recursive        *)
(* change tracker, the history ledger and the two hooks (pre-save and      *)
(* pre-query-update) that drive them.                                      *)
(*                                                                         *)
(* Strings are sequences of one-character strings, so that startsWith,     *)
(* split, join and the regular expressions of the source are computed      *)
(* character by character.                                                 *)
(***************************************************************************)
EXTENDS Integers, Sequences, FiniteSets, TLC

VARIABLES
    options,    \* the plugin options bound by mongooseTracker(schema, options)
    setup,      \* "ok" once the plugin is installed, "error" when it threw
    db,         \* the tracked collection: record id -> persisted record
    mem,        \* the in-memory document instance (a loaded or new document)
    clock,      \* Date.now()
    last,       \* what the last operation was given and what it did
    appended,   \* record id -> every Change Record appended to its ledger, in order
    probe,      \* argument and result of the last pure-function call
    hooks       \* the query hooks in flight: where each one stands and what it holds

vars == <<options, setup, db, mem, clock, last, appended, probe, hooks>>

----------------------------------------------------------------------------
(* Strings                                                                 *)

Digits == {"0", "1", "2", "3", "4", "5", "6", "7", "8", "9"}

Dot == <<".">>

\* a.b
P(a, b) == a \o Dot \o b

\* String.prototype.startsWith
StartsWith(s, prefix) ==
    /\ Len(prefix) <= Len(s)
    /\ SubSeq(s, 1, Len(prefix)) = prefix

\* /^\d+$/.test(part)
IsIndex(part) == Len(part) > 0 /\ \A i \in 1..Len(part) : part[i] \in Digits

\* String.prototype.split('.')
RECURSIVE SplitFrom(_, _, _)
SplitFrom(s, i, cur) ==
    IF i > Len(s) THEN <<cur>>
    ELSE IF s[i] = "." THEN <<cur>> \o SplitFrom(s, i + 1, <<>>)
    ELSE SplitFrom(s, i + 1, Append(cur, s[i]))

Split(s) == SplitFrom(s, 1, <<>>)

\* Array.prototype.join('.')
RECURSIVE Join(_)
Join(parts) ==
    IF Len(parts) = 0 THEN <<>>
    ELSE IF Len(parts) = 1 THEN parts[1]
    ELSE parts[1] \o Dot \o Join(Tail(parts))

DigitVal(c) ==
    CASE c = "0" -> 0 [] c = "1" -> 1 [] c = "2" -> 2 [] c = "3" -> 3
      [] c = "4" -> 4 [] c = "5" -> 5 [] c = "6" -> 6 [] c = "7" -> 7
      [] c = "8" -> 8 [] OTHER -> 9

\* String(n) for a small n
NumText(n) ==
    <<CASE n = 0 -> "0" [] n = 1 -> "1" [] n = 2 -> "2" [] n = 3 -> "3"
        [] n = 4 -> "4" [] n = 5 -> "5" [] n = 6 -> "6" [] n = 7 -> "7"
        [] n = 8 -> "8" [] OTHER -> "9">>

RECURSIVE ToNumber(_)
ToNumber(part) ==
    IF Len(part) = 0 THEN 0
    ELSE 10 * ToNumber(SubSeq(part, 1, Len(part) - 1)) + DigitVal(part[Len(part)])

----------------------------------------------------------------------------
(* Regular expressions: the source text of a RegExp is a sequence of       *)
(* tokens; RegExp(source) throws a SyntaxError when the source is not      *)
(* well formed.                                                            *)

TLit(c)  == [t |-> "lit", c |-> c]       \* a literal character (also \. and \$)
TAny     == [t |-> "any", c |-> ""]      \* .
TDigit   == [t |-> "digit", c |-> ""]    \* \d
TPlus    == [t |-> "plus", c |-> ""]     \* the quantifier +
TClass   == [t |-> "class", c |-> ""]    \* [ opening a character class
TBol     == [t |-> "bol", c |-> ""]      \* ^
TEol     == [t |-> "eol", c |-> ""]      \* $

IsAtom(tok) == tok.t \in {"lit", "any", "digit"}

\* new RegExp(source) succeeds: every quantifier follows an atom (a
\* quantifier after ^ or after another quantifier is "Nothing to repeat")
\* and no character class is left open (the alphabet has no "]").
RegExpCompiles(src) ==
    \A i \in 1..Len(src) :
        /\ src[i].t # "class"
        /\ src[i].t = "plus" => (i > 1 /\ IsAtom(src[i - 1]))

AtomMatches(tok, c) ==
    CASE tok.t = "lit"   -> c = tok.c
      [] tok.t = "any"   -> TRUE
      [] tok.t = "digit" -> c \in Digits
      [] OTHER           -> FALSE

\* regex.test(s) for a compiled source, position i of src against position j of s
RECURSIVE RegExpRun(_, _, _, _)
RegExpRun(src, i, s, j) ==
    IF i > Len(src) THEN TRUE
    ELSE IF src[i].t = "bol" THEN j = 1 /\ RegExpRun(src, i + 1, s, j)
    ELSE IF src[i].t = "eol" THEN j = Len(s) + 1 /\ RegExpRun(src, i + 1, s, j)
    ELSE IF i < Len(src) /\ src[i + 1].t = "plus"
         THEN \E n \in 1..(Len(s) - j + 1) :
                 /\ \A m \in j..(j + n - 1) : AtomMatches(src[i], s[m])
                 /\ RegExpRun(src, i + 2, s, j + n)
    ELSE /\ j <= Len(s)
         /\ AtomMatches(src[i], s[j])
         /\ RegExpRun(src, i + 1, s, j + 1)

RegExpTest(src, s) == \E j \in 1..(Len(s) + 1) : RegExpRun(src, 1, s, j)

----------------------------------------------------------------------------
(* Field Pattern Matcher                                                   *)

\* pattern.replace(/\$/g, '\\d+'), wrapped in ^ and $
RECURSIVE MatcherBody(_)
MatcherBody(pattern) ==
    IF Len(pattern) = 0 THEN <<>>
    ELSE LET c == Head(pattern)
             toks == CASE c = "$" -> <<TDigit, TPlus>>
                       [] c = "." -> <<TAny>>
                       [] c = "+" -> <<TPlus>>
                       [] c = "[" -> <<TClass>>
                       [] OTHER   -> <<TLit(c)>>
         IN toks \o MatcherBody(Tail(pattern))

MatcherSource(pattern) == <<TBol>> \o MatcherBody(pattern) \o <<TEol>>

\* new RegExp(`^${regexPattern}$`) throws
MatcherThrows(pattern) == ~RegExpCompiles(MatcherSource(pattern))

doesFieldNameMatchPattern(fieldPath, pattern) ==
    RegExpTest(MatcherSource(pattern), fieldPath)

\* pattern.replace(/\./g, '\\.').replace(/\$/g, '\\$')
RECURSIVE ValidationSource(_)
ValidationSource(pattern) ==
    IF Len(pattern) = 0 THEN <<>>
    ELSE LET c == Head(pattern)
             toks == CASE c = "$" -> <<TLit("$")>>
                       [] c = "." -> <<TLit(".")>>
                       [] c = "+" -> <<TPlus>>
                       [] c = "[" -> <<TClass>>
                       [] OTHER   -> <<TLit(c)>>
         IN toks \o ValidationSource(Tail(pattern))

isValidPattern(pattern) == RegExpCompiles(ValidationSource(pattern))

\* fieldsToTrack.some(p => doesFieldNameMatchPattern(field, p)), left to
\* right: "true" at the first match, "throw" at the first pattern that does
\* not compile, "false" at the end of the list.
RECURSIVE SomePatternMatches(_, _)
SomePatternMatches(field, patterns) ==
    IF Len(patterns) = 0 THEN "false"
    ELSE IF MatcherThrows(Head(patterns)) THEN "throw"
    ELSE IF doesFieldNameMatchPattern(field, Head(patterns)) THEN "true"
    ELSE SomePatternMatches(field, Tail(patterns))

\* shouldTrackField, with the options of the closure passed explicitly;
\* the result is "true", "false" or "throw" (the SyntaxError of RegExp)
shouldTrackField(opts, field) ==
    IF \E i \in 1..Len(opts.fieldsNotToTrack) :
           StartsWith(field, opts.fieldsNotToTrack[i])
    THEN "false"
    ELSE IF Len(opts.fieldsToTrack) = 0 THEN "true"
    ELSE SomePatternMatches(field, opts.fieldsToTrack)

\* mongooseTracker(schema, options): the forEach over fieldsToTrack throws
\* `Invalid field pattern` at the first pattern isValidPattern refuses
mongooseTrackerThrows(opts) ==
    \E i \in 1..Len(opts.fieldsToTrack) : ~isValidPattern(opts.fieldsToTrack[i])

----------------------------------------------------------------------------
(* JavaScript values.  A value is [k |-> kind, v |-> payload]: the payload  *)
(* of a scalar is its text, of an object a function from keys to values,   *)
(* of an array a sequence of values.                                       *)
(*   "prim"  a string, number or boolean that is not an ObjectId string    *)
(*   "hex"   a 24-digit lower-case hexadecimal string                      *)
(*   "oid"   an ObjectId instance                                          *)
(*   "date"  a Date instance                                               *)

Undef    == [k |-> "undefined", v |-> <<>>]
Null     == [k |-> "null", v |-> <<>>]
Prim(s)  == [k |-> "prim", v |-> s]
Hex(s)   == [k |-> "hex", v |-> s]
Oid(s)   == [k |-> "oid", v |-> s]
Date(s)  == [k |-> "date", v |-> s]
Obj(f)   == [k |-> "obj", v |-> f]
Arr(q)   == [k |-> "arr", v |-> q]

\* an object without keys
NoKeys == [key \in {} |-> Undef]

\* lodash isObject / isArray / isDate
isObject(x) == x.k \in {"obj", "arr", "date", "oid"}
isArray(x)  == x.k = "arr"
isDate(x)   == x.k = "date"

\* x == null  (null or undefined)
IsNullish(x) == x.k \in {"null", "undefined"}

\* a ?? b
Coalesce(a, b) == IF IsNullish(a) THEN b ELSE a

\* a === b: scalars by kind and text, object instances (dates, ObjectIds,
\* objects, arrays) by identity; the two operands the tracker compares
\* always come from two different documents, so two instances are never
\* the same one.
StrictEq(a, b) ==
    /\ a.k \in {"undefined", "null", "prim", "hex"}
    /\ a.k = b.k
    /\ a.v = b.v

\* lodash isEqual: deep, with Dates by time and ObjectIds by bytes
isEqual(a, b) == a.k = b.k /\ a.v = b.v

\* String(x) / x.toString() / `${x}`
ToStr(x) ==
    CASE x.k = "undefined" -> <<"u","n","d","e","f","i","n","e","d">>
      [] x.k = "null"      -> <<"n","u","l","l">>
      [] x.k \in {"obj", "arr"} -> <<"[","o","]">>
      [] OTHER             -> x.v

\* isObjectIdValid: ObjectId.isValid(id) and the round trip through
\* new ObjectId(id) gives the same text; only an ObjectId instance and a
\* 24-digit lower-case hex string pass
isObjectIdValid(x) == x.k \in {"hex", "oid"}

\* one step of lodash get: value[key]
Prop(x, key) ==
    CASE x.k = "obj" -> IF key \in DOMAIN x.v THEN x.v[key] ELSE Undef
      [] x.k = "arr" -> IF IsIndex(key) /\ ToNumber(key) < Len(x.v)
                        THEN x.v[ToNumber(key) + 1] ELSE Undef
      [] OTHER       -> Undef

RECURSIVE GetParts(_, _)
GetParts(x, parts) ==
    IF Len(parts) = 0 THEN x
    ELSE IF IsNullish(x) THEN Undef
    ELSE GetParts(Prop(x, Head(parts)), Tail(parts))

\* lodash get(object, path)
get(x, path) == GetParts(x, Split(path))

\* `key in object`
HasKey(x, key) == x.k = "obj" /\ key \in DOMAIN x.v

----------------------------------------------------------------------------
(* Names used by the schemas and documents of the model                    *)

s_history  == <<"h","i","s","t","o","r","y">>
s_id       == <<"_","i","d">>
s_display  == <<"_","d","i","s","p","l","a","y">>
s_name     == <<"n","a","m","e">>
s_due      == <<"d","u","e">>
s_code     == <<"c","o","d","e">>
s_supplier == <<"s","u","p","p","l","i","e","r">>
s_profile  == <<"p","r","o","f","i","l","e">>
s_nick     == <<"n","i","c","k">>
s_secret   == <<"s","e","c","r","e","t">>
s_owner    == <<"o","w","n","e","r">>
s_tags     == <<"t","a","g","s">>
s_items    == <<"i","t","e","m","s">>
s_price    == <<"p","r","i","c","e">>
s_product  == <<"p","r","o","d","u","c","t">>
s_group    == <<"g","r","o","u","p">>

\* the update operator $inc
s_inc      == <<"$","i","n","c">>

\* the default of the option fieldsNotToTrack
DefaultFieldsNotToTrack ==
    << s_history, s_id, <<"_","v">>, <<"_","_","v">>,
       <<"c","r","e","a","t","e","d","A","t">>,
       <<"u","p","d","a","t","e","d","A","t">>,
       <<"d","e","l","e","t","e","d","A","t">>, s_display >>

\* the default of the option limit
DefaultLimit == 50

\* Object.entries(object) lists the keys in the order the schema declares
\* them
KeyOrder ==
    << s_id, s_name, s_due, s_code, s_supplier, s_profile, s_nick, s_secret,
       s_owner, s_tags, s_items, s_display, s_price, s_product, s_group >>

\* schema.path(field) resolves an array position to the element type
GenericPart(part) == IF IsIndex(part) THEN <<"$">> ELSE part

RECURSIVE GenericParts(_)
GenericParts(parts) ==
    IF Len(parts) = 0 THEN <<>>
    ELSE <<GenericPart(Head(parts))>> \o GenericParts(Tail(parts))

GenericPath(field) == Join(GenericParts(Split(field)))

\* schema.path(field)?.options?.ref of the schemas of the model: the name
\* of the referenced model, or "" for undefined (no such path, or a path
\* without ref).  The tracked schema is
\*   Order   { name: String, due: Date, code: String,
\*             supplier: { type: ObjectId, ref: 'Supplier' },
\*             profile: { nick: String, secret: String, due: Date,
\*                        owner: { name: String } },
\*             owner: { name: String, _display: String },
\*             tags: [String],
\*             items: [{ name: String, _display: { type: ObjectId, ref: 'Product' } }],
\*             price: Number,
\*             product: { type: ObjectId, ref: 'Product' },
\*             group: { name: String, _display: { type: ObjectId, ref: 'Category' } } }
\*   Product  { _display: { type: ObjectId, ref: 'Catalog' } }
\*   Supplier { _display: String }      Catalog { _display: String }
\*   Category { _display: { type: ObjectId, ref: 'Category' } }
SchemaRef(schema, field) ==
    LET g == GenericPath(field) IN
    CASE schema = "Order" /\ g = s_supplier -> "Supplier"
      [] schema = "Order" /\ g = s_product -> "Product"
      [] schema = "Order" /\ g = P(P(s_items, <<"$">>), s_display) -> "Product"
      [] schema = "Order" /\ g = P(s_group, s_display) -> "Category"
      [] schema = "Product" /\ g = s_display -> "Catalog"
      [] schema = "Category" /\ g = s_display -> "Category"
      [] OTHER -> ""

\* the referenced collections: model -> id -> stored document
RefDocs ==
    [ Supplier |-> (<<"s","1">> :> Obj(s_display :> Prim(<<"S","1">>))
                 @@ <<"s","2">> :> Obj(s_display :> Prim(<<"S","2">>))
                 @@ <<"s","3">> :> Obj(s_display :> Prim(<<"S","1">>))),
      Product  |-> (<<"p","1">> :> Obj(s_display :> Oid(<<"c","1">>))
                 @@ <<"p","2">> :> Obj(s_display :> Oid(<<"c","9">>))
                 @@ <<"p","3">> :> Obj(s_name :> Prim(<<"n">>))),
      Catalog  |-> (<<"c","1">> :> Obj(s_display :> Prim(<<"C","1">>))),
      \* a category names its parent as its label: g1 is its own parent, g2
      \* and g3 are each other's, the parent of g4 does not exist
      Category |-> (<<"g","1">> :> Obj(s_display :> Oid(<<"g","1">>))
                 @@ <<"g","2">> :> Obj(s_display :> Oid(<<"g","3">>))
                 @@ <<"g","3">> :> Obj(s_display :> Oid(<<"g","2">>))
                 @@ <<"g","4">> :> Obj(s_display :> Oid(<<"g","9">>))) ]

\* mongoose.model(name) throws MissingSchemaError for a name that is not
\* registered, undefined included
ModelRegistered(name) == name \in DOMAIN RefDocs

\* mongoose.model(name).findById(id): the document, or Null
findRefById(name, id) ==
    IF ToStr(id) \in DOMAIN RefDocs[name] THEN RefDocs[name][ToStr(id)] ELSE Null

----------------------------------------------------------------------------
(* Reference Resolver.  A result is [st, v, io]: st is "ok", the name of   *)
(* the error the promise rejects with, or "hang" (the recursion never      *)
(* ends); io counts the fetches awaited.                                   *)

Res(st, v, io) == [st |-> st, v |-> v, io |-> io]

\* returnDisplayFromDocumentForValue(doc, field, value), doc given by the
\* name of its schema; seen holds the documents already fetched on the way
RECURSIVE ResolveValue(_, _, _, _, _)
ResolveValue(schema, field, value, seen, io) ==
    LET \* findById has answered
        Fetched(refModel, modelDoc) ==
            IF IsNullish(modelDoc) THEN Res("ok", value, io + 1)
            ELSE ResolveValue(refModel, s_display, Prop(modelDoc, s_display),
                              seen \cup {<<refModel, ToStr(value)>>}, io + 1)
        \* !isNull(refModel) holds for undefined as well
        Referenced(refModel) ==
            IF ~ModelRegistered(refModel) THEN Res("MissingSchemaError", value, io)
            ELSE IF <<refModel, ToStr(value)>> \in seen THEN Res("hang", value, io)
            ELSE Fetched(refModel, findRefById(refModel, value))
    IN IF ~isObjectIdValid(value) THEN Res("ok", value, io)
       ELSE Referenced(SchemaRef(schema, field))

returnDisplayFromDocumentForValue(schema, field, value) ==
    ResolveValue(schema, field, value, {}, 0)

\* returnDisplayFromDocumentForField(doc, originalField, field, value)
returnDisplayFromDocumentForField(schema, originalField, field, value) ==
    LET \* only isNull(modelDoc) is tested here
        Fetched(refModel, modelDoc) ==
            IF IsNullish(modelDoc) THEN Res("ok", value, 1)
            ELSE ResolveValue(refModel, s_display, Prop(modelDoc, s_display),
                              {<<refModel, ToStr(value)>>}, 1)
        Referenced(refModel) ==
            IF ~ModelRegistered(refModel) THEN Res("MissingSchemaError", value, 0)
            ELSE Fetched(refModel, findRefById(refModel, value))
    IN IF ~isObjectIdValid(value) THEN Res("ok", Coalesce(value, Prim(originalField)), 0)
       ELSE Referenced(SchemaRef(schema, field))

\* getDisplayName(doc, field): the label of the innermost enclosing array
\* element that has a _display, followed by the last segment of the path
RECURSIVE DisplayNameFrom(_, _, _, _, _)
DisplayNameFrom(schema, doc, field, parts, i) ==
    LET Labelled(r) ==
            IF r.st # "ok" THEN r
            ELSE IF StrictEq(r.v, Prim(field)) THEN Res("ok", Prim(field), r.io)
            ELSE Res("ok", Prim(ToStr(r.v) \o <<" ">> \o parts[Len(parts)]), r.io)
        Element(path, docValue) ==
            IF IsNullish(docValue)
            THEN DisplayNameFrom(schema, doc, field, parts, i - 1)
            ELSE Labelled(returnDisplayFromDocumentForField(schema, field, path, docValue))
        At(path) == Element(path, get(doc, path))
    IN IF i < 1 THEN Res("ok", Prim(field), 0)
       ELSE IF ~IsIndex(parts[i]) THEN DisplayNameFrom(schema, doc, field, parts, i - 1)
       ELSE At(P(Join(SubSeq(parts, 1, i)), s_display))

getDisplayName(schema, doc, field) ==
    DisplayNameFrom(schema, doc, field, Split(field), Len(Split(field)))

----------------------------------------------------------------------------
(* Array Differ                                                            *)

\* a faulty variant of itemsEqual: the comparison by _id is left out, two
\* elements are the same only when they are deeply equal
itemsEqualDeepOnly(item1, item2) ==
    isEqual(item1, item2)

\* itemsEqual(item1, item2)
itemsEqual(item1, item2) ==
    IF ~IsNullish(Prop(item1, s_id)) /\ ~IsNullish(Prop(item2, s_id))
    THEN ToStr(Prop(item1, s_id)) = ToStr(Prop(item2, s_id))
    ELSE isEqual(item1, item2)

\* array.filter(x => !other.some(y => itemsEqual(...)))
WithoutCounterpart(array, other) ==
    SelectSeq(array, LAMBDA x : ~\E i \in 1..Len(other) : itemsEqual(other[i], x))

\* findArrayDifferences(oldArray, newArray)
findArrayDifferences(oldArray, newArray) ==
    [ added   |-> WithoutCounterpart(newArray, oldArray),
      removed |-> WithoutCounterpart(oldArray, newArray) ]

----------------------------------------------------------------------------
(* Change Tracker.  The History under construction is [st, action,         *)
(* changes]; st becomes the name of the error, or "hang", when an awaited   *)
(* call rejects or never returns.  A Change carries, besides field, before *)
(* and after, the path its values were read at (src), the modified path or *)
(* update key the hook was processing (top, stamped by the hook) and the   *)
(* moment of its push (tick): 0 for a push made before the first await of  *)
(* the call, 1 or 2 for a push made after one or two awaits, plus 10 for   *)
(* every fetch awaited.                                                    *)

Change(field, before, after, src, tick) ==
    [field |-> field, before |-> before, after |-> after, src |-> src,
     top |-> <<>>, tick |-> tick]

Push(hist, c) == [hist EXCEPT !.changes = Append(@, c)]

Fail(hist, st) == [hist EXCEPT !.st = st]

\* the Changes of the removed (side = "before") or added (side = "after")
\* elements of an array, element by element
RECURSIVE ElementChanges(_, _, _, _, _, _, _)
ElementChanges(schema, path, elements, index, side, hist, displayField) ==
    LET Sided(v, tick) ==
            IF side = "before" THEN Change(displayField, v, Null, path, tick)
            ELSE Change(displayField, Null, v, path, tick)
        Rest(h) == ElementChanges(schema, path, elements, index + 1, side, h, displayField)
        Resolved(r) ==
            IF r.st # "ok" THEN Fail(hist, r.st)
            ELSE Rest(Push(hist, Sided(r.v, 1 + 10 * r.io)))
        Element(element) ==
            IF isObject(element) /\ ~isArray(element)
            THEN Resolved(returnDisplayFromDocumentForValue(
                              schema, P(P(path, NumText(index - 1)), s_display),
                              Prop(element, s_display)))
            ELSE Rest(Push(hist, Sided(element, 0)))
    IN IF index > Len(elements) \/ hist.st # "ok" THEN hist
       ELSE Element(elements[index])

RECURSIVE trackChanges(_, _, _, _, _, _, _)
RECURSIVE TrackEntries(_, _, _, _, _, _, _, _)

\* trackChanges(doc, path, value, history, displayField); doc is the
\* snapshot before the write, a document of the given schema
trackChanges(opts, schema, doc, path, value, hist, displayField) ==
    LET Resolve(display) ==
            returnDisplayFromDocumentForValue(schema, P(path, s_display), display)
        Displays(beforeDisplay, afterDisplay, v1, v2) ==
            IF v1.st # "ok" THEN Fail(hist, v1.st)
            ELSE IF v2.st # "ok" THEN Fail(hist, v2.st)
            ELSE IF ~StrictEq(beforeDisplay, afterDisplay)
            THEN Push(hist, Change(displayField, v1.v, v2.v, P(path, s_display),
                                   2 + 10 * (v1.io + v2.io)))
            ELSE hist
        WithDisplay(beforeDisplay, afterDisplay) ==
            Displays(beforeDisplay, afterDisplay,
                     Resolve(beforeDisplay), Resolve(afterDisplay))
        Differences(d) ==
            IF Len(d.removed) = 0 /\ Len(d.added) = 0 THEN hist
            ELSE ElementChanges(
                     schema, path,
                     IF Len(d.removed) > 0 THEN d.removed ELSE d.added, 1,
                     IF Len(d.removed) > 0 THEN "before" ELSE "after",
                     [hist EXCEPT !.action =
                          IF Len(d.removed) > 0 THEN "removed" ELSE "added"],
                     displayField)
        Arrays(oldArray) ==
            \* oldArray.map is not a function
            IF ~isArray(oldArray) THEN Fail(hist, "TypeError")
            ELSE Differences(findArrayDifferences(oldArray.v, value.v))
        Primitive(old) ==
            IF ~StrictEq(old, value)
            THEN Push(hist, Change(displayField, Coalesce(old, Null),
                                   Coalesce(value, Null), path, 0))
            ELSE IF hist.action = "removed"
            THEN Push(hist, Change(displayField, Coalesce(old, Null), Null, path, 0))
            ELSE hist
    IN IF hist.st # "ok" THEN hist
       ELSE IF isObject(value) /\ ~isArray(value) /\ ~isDate(value)
       THEN IF HasKey(value, s_display)
            THEN WithDisplay(Coalesce(get(doc, P(path, s_display)), Null),
                             Coalesce(Prop(value, s_display), Null))
            ELSE TrackEntries(opts, schema, doc, path, value, 1, hist, displayField)
       ELSE IF isArray(value) THEN Arrays(Coalesce(get(doc, path), Arr(<<>>)))
       ELSE Primitive(get(doc, path))

\* Object.entries(plainObject).map(...) of the branch without _display:
\* every key not listed in fieldsNotToTrack is tracked in turn
TrackEntries(opts, schema, doc, path, value, i, hist, displayField) ==
    IF i > Len(KeyOrder) \/ hist.st # "ok" THEN hist
    ELSE LET key == KeyOrder[i] IN
         IF HasKey(value, key)
            /\ ~\E n \in 1..Len(opts.fieldsNotToTrack) : opts.fieldsNotToTrack[n] = key
         THEN TrackEntries(opts, schema, doc, path, value, i + 1,
                  trackChanges(opts, schema, doc, P(path, key), value.v[key], hist,
                               displayField \o <<" ">> \o key),
                  displayField)
         ELSE TrackEntries(opts, schema, doc, path, value, i + 1, hist, displayField)

\* history.changes in the order of the pushes: by tick, and within one
\* tick in the order the calls were started
RECURSIVE InPushOrder(_, _)
InPushOrder(changes, tick) ==
    IF Len(changes) = 0 THEN <<>>
    ELSE SelectSeq(changes, LAMBDA c : c.tick = tick)
         \o InPushOrder(SelectSeq(changes, LAMBDA c : c.tick # tick), tick + 1)

RECURSIVE Stamped(_, _)
Stamped(changes, top) ==
    IF Len(changes) = 0 THEN <<>>
    ELSE <<[Head(changes) EXCEPT !.top = top]>> \o Stamped(Tail(changes), top)

\* await trackChanges(...) as the hooks call it
awaitTrackChanges(opts, schema, doc, path, value, hist, displayField) ==
    LET fresh == trackChanges(opts, schema, doc, path, value,
                              [hist EXCEPT !.changes = <<>>], displayField)
    IN [fresh EXCEPT !.changes = hist.changes \o Stamped(InPushOrder(@, 0), path)]

----------------------------------------------------------------------------
(* History Ledger                                                          *)

\* lodash takeRight(array, n)
takeRight(array, n) ==
    IF n <= 0 THEN <<>>
    ELSE IF n >= Len(array) THEN array
    ELSE SubSeq(array, Len(array) - n + 1, Len(array))

\* the Change as it is stored: field, before, after (src and top stay with
\* it to tell where it comes from); a value that is undefined is written to
\* the collection as null
StoredChange(c) ==
    [field |-> c.field, before |-> Coalesce(c.before, Null),
     after |-> Coalesce(c.after, Null), src |-> c.src, top |-> c.top]

RECURSIVE StoredChanges(_)
StoredChanges(changes) ==
    IF Len(changes) = 0 THEN <<>>
    ELSE <<StoredChange(Head(changes))>> \o StoredChanges(Tail(changes))

\* the History object the hooks build
NewHistory(now, changedBy) ==
    [st |-> "ok", action |-> "updated", at |-> now, changedBy |-> changedBy, changes |-> <<>>]

\* the History as it is stored in the ledger
Record(hist) ==
    [action |-> hist.action, at |-> hist.at, changedBy |-> hist.changedBy,
     changes |-> StoredChanges(hist.changes)]

\* a faulty variant of appendToLedger: the ledger read is left out, the new
\* ledger holds the new record only
appendToLedgerDropsOld(ledger, hist, limit) == takeRight(<<Record(hist)>>, limit)

\* takeRight([...ledger, history], limit)
appendToLedger(ledger, hist, limit) == takeRight(Append(ledger, Record(hist)), limit)

----------------------------------------------------------------------------
(* Change-Detection Orchestrator                                           *)

\* new Types.ObjectId(x) throws for anything but an ObjectId, a 24-digit
\* hex string, a number or a missing value ("prim" standing for a string
\* that is not 12 bytes long)
ObjectIdThrows(x) == x.k \in {"prim", "date", "obj", "arr"}

\* a faulty variant of ReferenceChange: the referenced records are not
\* fetched, the Change carries the raw identifiers
ReferenceChangeRaw(schema, fieldPath, oldRaw, newValue, hist, displayField) ==
    LET Referenced(refModel) ==
            IF ~ModelRegistered(refModel) THEN Fail(hist, "MissingSchemaError")
            ELSE IF ObjectIdThrows(newValue) \/ ObjectIdThrows(oldRaw)
            THEN Fail(hist, "CastError")
            ELSE Push(hist, [Change(displayField, oldRaw, newValue, fieldPath, 0)
                                EXCEPT !.top = fieldPath])
    IN Referenced(SchemaRef(schema, fieldPath))

\* the reference branch of both hooks: the two findById and the push; the
\* identifier is wrapped in new Types.ObjectId by the pre-save hook and cast
\* by findById in the query hooks, which fail on the same values
ReferenceChange(schema, fieldPath, oldRaw, newValue, hist, displayField) ==
    LET Found(modelDoc, oldValue) ==
            Push(hist, [Change(displayField,
                               Coalesce(Prop(oldValue, s_display), oldRaw),
                               Coalesce(Prop(modelDoc, s_display), newValue),
                               fieldPath, 0) EXCEPT !.top = fieldPath])
        Referenced(refModel) ==
            IF ~ModelRegistered(refModel) THEN Fail(hist, "MissingSchemaError")
            ELSE IF ObjectIdThrows(newValue) \/ ObjectIdThrows(oldRaw)
            THEN Fail(hist, "CastError")
            ELSE Found(IF IsNullish(newValue) THEN Null
                       ELSE findRefById(refModel, newValue),
                       IF IsNullish(oldRaw) THEN Null
                       ELSE findRefById(refModel, oldRaw))
    IN Referenced(SchemaRef(schema, fieldPath))

\* the loop of the pre-save hook over this.modifiedPaths()
RECURSIVE SaveFields(_, _, _, _, _, _)
SaveFields(opts, this, docBeforeUpdate, changedFields, i, hist) ==
    LET Rest(h) == SaveFields(opts, this, docBeforeUpdate, changedFields, i + 1, h)
        Tracked(fieldPath, newValue, oldRaw, dn) ==
            IF dn.st # "ok" THEN Fail(hist, dn.st)
            ELSE IF isObjectIdValid(newValue) \/ isObjectIdValid(oldRaw)
            THEN Rest(ReferenceChange("Order", fieldPath, oldRaw, newValue, hist,
                                      ToStr(dn.v)))
            ELSE Rest(awaitTrackChanges(opts, "Order", docBeforeUpdate, fieldPath,
                                        newValue, hist, ToStr(dn.v)))
        Field(fieldPath, tracked) ==
            IF tracked = "throw" THEN Fail(hist, "SyntaxError")
            ELSE IF tracked = "false" THEN Rest(hist)
            ELSE Tracked(fieldPath, get(this.fields, fieldPath),
                         get(docBeforeUpdate, fieldPath),
                         getDisplayName("Order", this.fields, fieldPath))
    IN IF i > Len(changedFields) \/ hist.st # "ok" THEN hist
       ELSE Field(changedFields[i], shouldTrackField(opts, changedFields[i]))

\* schema.pre('save'): `this` is the in-memory document, stored the
\* persisted record (or NoRecord).  The result tells how the hook ended
\* (st), the History it built (hist) and, when it called this.set(name, ..),
\* the ledger it set (set, ledger).
NoHook(st) == [st |-> st, built |-> FALSE, set |-> FALSE]

\* a faulty variant of preSave: the test isEmpty(history.changes) is left
\* out, so a History without changes is appended as well
preSaveKeepsEmpty(opts, this, stored, now) ==
    LET Built(hist) ==
            IF hist.st # "ok" THEN NoHook(hist.st)
            ELSE [st |-> "ok", built |-> TRUE, set |-> TRUE, hist |-> hist,
                  ledger |-> appendToLedger(this.history, hist, opts.limit)]
    IN IF this.isNew THEN NoHook("ok")
       ELSE IF ~stored.exists THEN NoHook("ok")
       ELSE Built(SaveFields(opts, this, stored.fields, this.modified, 1,
                             NewHistory(now, Coalesce(this.changedBy, Null))))

\* a faulty variant of preSave: the tests of this.isNew and of the missing
\* snapshot are left out, so a new document is diffed against nothing
preSaveTracksNew(opts, this, stored, now) ==
    LET Built(hist) ==
            IF hist.st # "ok" THEN NoHook(hist.st)
            ELSE IF Len(hist.changes) = 0
            THEN [st |-> "ok", built |-> TRUE, set |-> FALSE, hist |-> hist]
            ELSE [st |-> "ok", built |-> TRUE, set |-> TRUE, hist |-> hist,
                  ledger |-> appendToLedger(this.history, hist, opts.limit)]
    IN Built(SaveFields(opts, this, stored.fields, this.modified, 1,
                        NewHistory(now, Coalesce(this.changedBy, Null))))

preSave(opts, this, stored, now) ==
    LET Built(hist) ==
            IF hist.st # "ok" THEN NoHook(hist.st)
            ELSE IF Len(hist.changes) = 0
            THEN [st |-> "ok", built |-> TRUE, set |-> FALSE, hist |-> hist]
            ELSE [st |-> "ok", built |-> TRUE, set |-> TRUE, hist |-> hist,
                  ledger |-> appendToLedger(this.history, hist, opts.limit)]
    IN IF this.isNew THEN NoHook("ok")
       ELSE IF ~stored.exists THEN NoHook("ok")
       ELSE Built(SaveFields(opts, this, stored.fields, this.modified, 1,
                             NewHistory(now, Coalesce(this.changedBy, Null))))

\* the loop of the query hook over Object.entries(updatedFields)
RECURSIVE UpdateFields(_, _, _, _, _)
UpdateFields(opts, originalDoc, updatedFields, i, hist) ==
    LET Rest(h) == UpdateFields(opts, originalDoc, updatedFields, i + 1, h)
        Field(path, value, tracked, oldRaw) ==
            IF tracked = "throw" THEN Fail(hist, "SyntaxError")
            ELSE IF tracked = "false" THEN Rest(hist)
            ELSE IF isObjectIdValid(value) \/ isObjectIdValid(oldRaw)
            THEN Rest(ReferenceChange("Order", path, oldRaw, value, hist, path))
            ELSE Rest(awaitTrackChanges(opts, "Order", originalDoc, path, value,
                                        hist, path))
    IN IF i > Len(updatedFields) \/ hist.st # "ok" THEN hist
       ELSE Field(updatedFields[i].path, updatedFields[i].value,
                  shouldTrackField(opts, updatedFields[i].path),
                  get(originalDoc, updatedFields[i].path))

\* a faulty variant of preUpdateDiff: the test of skipMiddleware is left out
preUpdateDiffIgnoresSkip(opts, updatedFields, qopts, originalDoc, now) ==
    LET Built(hist) ==
            IF hist.st # "ok" THEN NoHook(hist.st)
            ELSE [st |-> "ok", built |-> TRUE, set |-> Len(hist.changes) > 0,
                  hist |-> hist]
    IN IF Len(updatedFields) = 0 THEN NoHook("ok")
       ELSE IF ~originalDoc.exists THEN NoHook("ok")
       ELSE Built(UpdateFields(opts, originalDoc.fields, updatedFields, 1,
                               NewHistory(now, Coalesce(qopts.changedBy, Prim(<<>>)))))

\* schema.pre(['findOneAndUpdate', 'updateOne', 'updateMany']) up to the
\* test of history.changes: originalDoc is the first record the filter
\* matches (or NoRecord), qopts the options of the query
preUpdateDiff(opts, updatedFields, qopts, originalDoc, now) ==
    LET Built(hist) ==
            IF hist.st # "ok" THEN NoHook(hist.st)
            ELSE [st |-> "ok", built |-> TRUE, set |-> Len(hist.changes) > 0,
                  hist |-> hist]
    IN IF qopts.skipMiddleware THEN NoHook("ok")
       ELSE IF Len(updatedFields) = 0 THEN NoHook("ok")
       ELSE IF ~originalDoc.exists THEN NoHook("ok")
       ELSE Built(UpdateFields(opts, originalDoc.fields, updatedFields, 1,
                               NewHistory(now, Coalesce(qopts.changedBy, Prim(<<>>)))))

----------------------------------------------------------------------------
(* The record store (mongoose and MongoDB, as far as the hooks use them)   *)

NoRecord == [exists |-> FALSE, fields |-> Obj(NoKeys), history |-> <<>>]

\* value with the value at the given path replaced
RECURSIVE SetParts(_, _, _)
SetParts(x, parts, value) ==
    IF Len(parts) = 0 THEN value
    ELSE LET key == Head(parts) IN
         IF x.k = "arr" /\ IsIndex(key) /\ ToNumber(key) < Len(x.v)
         THEN Arr([x.v EXCEPT ![ToNumber(key) + 1] = SetParts(@, Tail(parts), value)])
         ELSE IF x.k = "obj"
         THEN Obj([k \in DOMAIN x.v \cup {key} |->
                      IF k = key THEN SetParts(Prop(x, key), Tail(parts), value)
                      ELSE x.v[k]])
         ELSE Obj(key :> SetParts(Undef, Tail(parts), value))

set(x, path, value) == SetParts(x, Split(path), value)

\* the schema casts a 24-digit hex string to an ObjectId on an ObjectId path
Cast(path, value) ==
    IF value.k = "hex" /\ SchemaRef("Order", path) # "" THEN Oid(value.v) ELSE value

\* the $set a save sends: every modified path with its in-memory value
RECURSIVE PersistPaths(_, _, _, _)
PersistPaths(fields, this, paths, i) ==
    IF i > Len(paths) THEN fields
    ELSE PersistPaths(set(fields, paths[i], get(this.fields, paths[i])), this, paths, i + 1)

\* a key of the update that is an update operator, not a path
IsOperator(key) == Len(key) > 0 /\ key[1] = "$"

\* the number a field holds (a missing field counts as 0)
NumberAt(fields, key) ==
    IF get(fields, key).k = "prim" /\ IsIndex(get(fields, key).v)
    THEN ToNumber(get(fields, key).v) ELSE 0

\* { $inc: amounts }: every field named is incremented by its amount
RECURSIVE Increment(_, _, _)
Increment(fields, amounts, i) ==
    IF i > Len(KeyOrder) THEN fields
    ELSE IF HasKey(amounts, KeyOrder[i])
    THEN Increment(set(fields, KeyOrder[i],
                       Prim(NumText(NumberAt(fields, KeyOrder[i])
                                    + ToNumber(amounts.v[KeyOrder[i]].v)))),
                   amounts, i + 1)
    ELSE Increment(fields, amounts, i + 1)

\* the update a query applies: every path entry with its value, every $inc
\* entry as an increment
RECURSIVE ApplyUpdate(_, _, _)
ApplyUpdate(fields, updatedFields, i) ==
    IF i > Len(updatedFields) THEN fields
    ELSE IF IsOperator(updatedFields[i].path)
    THEN ApplyUpdate(Increment(fields, updatedFields[i].value, 1), updatedFields, i + 1)
    ELSE ApplyUpdate(set(fields, updatedFields[i].path,
                         Cast(updatedFields[i].path, updatedFields[i].value)),
                     updatedFields, i + 1)

----------------------------------------------------------------------------
(* Bounds and inputs                                                       *)

\* writes (create, save, query-update, delete) in one behaviour
MaxWrites == 4

\* the writes after the create that draw from the wide input sets; the
\* later ones draw from the narrow sets, which only let the ledger grow
WideWrites == 1

\* length of the enumerated patterns and paths of the pattern matcher
MaxPatternLen == 3

\* length of the arrays the array differ is applied to
MaxArrayLen == 3

vA == Prim(<<"a">>)
vB == Prim(<<"b">>)
d1 == Date(<<"d","1">>)
d2 == Date(<<"d","2">>)
user1 == Prim(<<"u","1">>)

item1 == Obj(s_id :> Oid(<<"i","1">>) @@ s_name :> Prim(<<"n","1">>)
             @@ s_display :> Oid(<<"p","1">>))
item2 == Obj(s_id :> Oid(<<"i","2">>) @@ s_name :> Prim(<<"n","2">>)
             @@ s_display :> Oid(<<"p","2">>))

\* an element whose _display refers to a product that does not exist
item3 == Obj(s_id :> Oid(<<"i","3">>) @@ s_name :> Prim(<<"n","3">>)
             @@ s_display :> Oid(<<"p","9">>))

profile1 == Obj(s_nick :> Prim(<<"n">>) @@ s_secret :> Prim(<<"x">>) @@ s_due :> d1)
owner1   == Obj(s_name :> Prim(<<"o">>) @@ s_display :> Prim(<<"O">>))
tags1    == Arr(<<Prim(<<"t","1">>), Prim(<<"t","2">>)>>)

\* the document Model.create is called with (code is left unset)
Doc1 ==
    Obj(s_name :> vA @@ s_due :> d1
        @@ s_supplier :> Oid(<<"s","1">>) @@ s_profile :> profile1
        @@ s_owner :> owner1 @@ s_tags :> tags1 @@ s_items :> Arr(<<item1>>))

\* a document with few fields: code is set, the reference, the structured
\* values and the arrays are left unset
Doc2 == Obj(s_name :> vB @@ s_code :> Prim(<<"j">>))

InitialDocs == {Doc1, Doc2}

Opts(track, notTrack, limit) ==
    [fieldsToTrack |-> track, fieldsNotToTrack |-> notTrack, limit |-> limit]

\* the options the plugin is installed with
OptionSets ==
    { Opts(<<>>, DefaultFieldsNotToTrack, 2),
      Opts(<<s_name, s_tags>>, DefaultFieldsNotToTrack, 1),
      Opts(<<s_name, s_due, s_profile, P(s_profile, s_secret)>>,
           <<s_history, s_id, s_due, P(s_profile, s_secret)>>, 2),
      Opts(<<P(P(s_items, <<"$">>), s_name), <<"$","+">>, s_name>>,
           DefaultFieldsNotToTrack, 2),
      Opts(<<s_name, P(s_name, <<"[","a">>)>>, DefaultFieldsNotToTrack, 2) }

E(path, value) == [path |-> path, value |-> value]

\* update specifications of the query-updates
NarrowUpdates == { <<E(s_name, vA)>>, <<E(s_name, vB)>> }

WideUpdates ==
    NarrowUpdates \cup
    { <<>>,
      <<E(s_code, Null)>>, <<E(s_code, Hex(<<"s","2">>))>>,
      <<E(s_name, Null)>>,
      <<E(s_due, d1)>>, <<E(s_due, d2)>>,
      <<E(s_supplier, Oid(<<"s","1">>))>>, <<E(s_supplier, Hex(<<"s","2">>))>>,
      <<E(s_supplier, Oid(<<"s","3">>))>>, <<E(s_supplier, Oid(<<"s","9">>))>>,
      <<E(s_code, Prim(<<"j">>))>>,
      <<E(s_profile, profile1)>>,
      <<E(s_profile, Obj(s_nick :> Prim(<<"m">>) @@ s_secret :> Prim(<<"x">>)))>>,
      <<E(s_profile, Obj(s_nick :> Prim(<<"n">>) @@ s_secret :> Prim(<<"y">>)))>>,
      <<E(P(s_profile, s_nick), Prim(<<"m">>))>>,
      <<E(s_profile, Obj(s_nick :> Prim(<<"m">>) @@ s_due :> d2
                         @@ s_owner :> Obj(s_name :> Prim(<<"q">>))))>>,
      <<E(s_owner, owner1)>>,
      <<E(s_owner, Obj(s_name :> Prim(<<"o">>) @@ s_display :> Prim(<<"P">>)))>>,
      <<E(s_tags, tags1)>>,
      <<E(s_tags, Arr(<<Prim(<<"t","2">>), Prim(<<"t","1">>)>>))>>,
      <<E(s_tags, Arr(<<Prim(<<"t","1">>)>>))>>,
      <<E(s_tags, Arr(<<Prim(<<"t","1">>), Prim(<<"t","2">>), Prim(<<"t","3">>)>>))>>,
      <<E(s_tags, Arr(<<Prim(<<"t","1">>), Prim(<<"t","3">>)>>))>>,
      <<E(s_items, Arr(<<item1>>))>>, <<E(s_items, Arr(<<>>))>>,
      <<E(s_items, Arr(<<item1, item2>>))>>,
      <<E(s_items, Arr(<<item1, item3>>))>>,
      <<E(s_tags, Arr(<<Prim(<<"t","1">>)>>)), E(s_name, vA)>>,
      <<E(s_name, vB), E(s_tags, Arr(<<Prim(<<"t","1">>)>>))>>,
      <<E(s_name, vA), E(s_tags, Arr(<<Prim(<<"t","1">>)>>))>>,
      <<E(s_tags, Arr(<<Prim(<<"t","1">>), Prim(<<"t","2">>), Prim(<<"t","3">>)>>)),
        E(s_name, vA)>>,
      <<E(s_name, vB), E(s_due, d2)>>,
      <<E(s_tags, Arr(<<Prim(<<"t","1">>)>>)), E(s_items, Arr(<<item1, item2>>))>>,
      <<E(s_product, Oid(<<"p","1">>))>>,
      <<E(s_inc, Obj(s_price :> Prim(<<"1">>)))>>,
      <<E(s_inc, Obj(s_price :> Prim(<<"1">>))), E(s_name, vB)>> }

Q(changedBy, skipMiddleware) == [changedBy |-> changedBy, skipMiddleware |-> skipMiddleware]

\* a query-update: updateMany or not, the filter (the ids it matches), the
\* update specification and the options
Query(many, filter, update, qopts) ==
    [many |-> many, filter |-> filter, update |-> update, qopts |-> qopts]

NarrowQueries == { Query(FALSE, {"r1"}, u, Q(Undef, FALSE)) : u \in NarrowUpdates }

WideQueries ==
    { Query(FALSE, {"r1"}, u, Q(Undef, FALSE)) : u \in WideUpdates }
    \cup { Query(FALSE, {"r1"}, <<E(s_name, vB)>>, Q(user1, FALSE)),
           Query(TRUE, {"r1"}, <<E(s_name, vB)>>, Q(user1, FALSE)),
           Query(TRUE, {"r1"}, <<E(s_tags, Arr(<<Prim(<<"t","1">>)>>))>>, Q(Undef, FALSE)),
           Query(FALSE, {"r1"}, <<E(s_name, vB)>>, Q(user1, TRUE)),
           Query(FALSE, {"r1"}, <<E(s_tags, Arr(<<>>))>>, Q(Undef, TRUE)),
           Query(FALSE, {}, <<E(s_name, vB)>>, Q(Undef, FALSE)),
           Query(TRUE, {}, <<E(s_name, vB)>>, Q(Undef, FALSE)) }

\* what a caller does to a loaded document before doc.save(): the
\* assignments, the paths they touch (each assigned path and its ancestors,
\* as this.modifiedPaths() lists them) and this._changedBy
Edit(assign, modified, changedBy) ==
    [assign |-> assign, modified |-> modified, changedBy |-> changedBy]

NarrowEdits ==
    { Edit(<<E(s_name, vA)>>, <<s_name>>, Undef),
      Edit(<<E(s_name, vB)>>, <<s_name>>, Undef) }

WideEdits ==
    NarrowEdits \cup
    { Edit(<<>>, <<>>, Undef),
      Edit(<<E(s_name, vB)>>, <<s_name>>, user1),
      Edit(<<E(s_due, d2)>>, <<s_due>>, Undef),
      Edit(<<E(s_supplier, Oid(<<"s","2">>))>>, <<s_supplier>>, Undef),
      Edit(<<E(s_supplier, Oid(<<"s","9">>))>>, <<s_supplier>>, Undef),
      Edit(<<E(s_product, Oid(<<"p","2">>))>>, <<s_product>>, Undef),
      Edit(<<E(s_code, Prim(<<"j">>))>>, <<s_code>>, Undef),
      Edit(<<E(P(s_profile, s_nick), Prim(<<"m">>))>>,
           <<s_profile, P(s_profile, s_nick)>>, Undef),
      Edit(<<E(P(s_profile, s_secret), Prim(<<"y">>))>>,
           <<s_profile, P(s_profile, s_secret)>>, Undef),
      Edit(<<E(P(s_owner, s_display), Prim(<<"P">>))>>,
           <<s_owner, P(s_owner, s_display)>>, Undef),
      Edit(<<E(s_tags, Arr(<<Prim(<<"t","1">>)>>))>>, <<s_tags>>, Undef),
      Edit(<<E(s_tags, Arr(<<Prim(<<"t","1">>), Prim(<<"t","2">>), Prim(<<"t","3">>)>>))>>,
           <<s_tags>>, Undef),
      Edit(<<E(s_items, Arr(<<item1, item2>>))>>, <<s_items>>, Undef),
      Edit(<<E(P(P(s_items, <<"0">>), s_name), Prim(<<"n","9">>))>>,
           <<s_items, P(s_items, <<"0">>), P(P(s_items, <<"0">>), s_name)>>, Undef),
      \* the element is pointed to a product that does not exist and renamed
      Edit(<<E(P(P(s_items, <<"0">>), s_display), Oid(<<"p","9">>)),
             E(P(P(s_items, <<"0">>), s_name), Prim(<<"n","9">>))>>,
           <<s_items, P(s_items, <<"0">>), P(P(s_items, <<"0">>), s_display),
             P(P(s_items, <<"0">>), s_name)>>, Undef),
      Edit(<<E(P(s_tags, <<"0">>), Prim(<<"t","9">>))>>,
           <<s_tags, P(s_tags, <<"0">>)>>, Undef),
      Edit(<<E(s_name, vB), E(s_due, d2)>>, <<s_name, s_due>>, Undef),
      Edit(<<E(s_tags, Arr(<<Prim(<<"t","1">>)>>)), E(s_items, Arr(<<item1, item2>>))>>,
           <<s_tags, s_items>>, Undef) }

Queries(n) == IF n <= WideWrites THEN WideQueries ELSE NarrowQueries
Edits(n)   == IF n <= WideWrites THEN WideEdits ELSE NarrowEdits

----------------------------------------------------------------------------
(* State machine                                                           *)

RecordIds == {"r1", "r2"}

\* the tracked collection in its natural order
RecordOrder == <<"r1", "r2">>

\* the record the specifications of a single record create
SingleIds == {"r1"}

\* Model.findOne(filter): the first record the filter holds for; a filter
\* is given by the set of the record ids it matches
RECURSIVE FirstMatch(_, _, _)
FirstMatch(store, filter, i) ==
    IF i > Len(RecordOrder) THEN "none"
    ELSE IF RecordOrder[i] \in filter /\ store[RecordOrder[i]].exists THEN RecordOrder[i]
    ELSE FirstMatch(store, filter, i + 1)

findOne(store, filter) ==
    IF FirstMatch(store, filter, 1) = "none" THEN NoRecord
    ELSE store[FirstMatch(store, filter, 1)]

NoDoc ==
    [loaded |-> FALSE, id |-> "none", isNew |-> FALSE, fields |-> Obj(NoKeys),
     history |-> <<>>, changedBy |-> Undef, modified |-> <<>>]

NoHist == [action |-> "none", at |-> 0, changedBy |-> Null, changes |-> <<>>]

DefaultOptions == Opts(<<>>, DefaultFieldsNotToTrack, DefaultLimit)

\* what an operation was given: the record it is about, the (path, value)
\* pairs, the actor and the bypass flag
In(id, entries, by, skip) == [id |-> id, entries |-> entries, by |-> by, skip |-> skip]

NoIn == In("none", <<>>, Undef, FALSE)

\* what an operation leaves in `last`: st is how the call ended for the
\* caller, hook how the hook ended; many and filter are those of a
\* query-update
Done(op, st, before, input, h, stale) ==
    [op |-> op, st |-> st, id |-> input.id, before |-> before,
     input |-> input.entries, by |-> input.by, skip |-> input.skip,
     many |-> FALSE, filter |-> {},
     hook |-> h.st, built |-> h.built, set |-> h.set,
     hist |-> IF h.built THEN Record(h.hist) ELSE NoHist,
     stale |-> stale]

\* the callers that run a query-update at the same time
Procs == {1, 2}

\* a query hook that has not been called yet: pc is where it stands, query
\* the query it was called for, hist the History it built, oldHistory the
\* ledger it read from docUpdated
IdleHook ==
    [pc |-> "idle", query |-> Query(FALSE, {}, <<>>, Q(Undef, FALSE)),
     st |-> "ok", set |-> FALSE, hist |-> NewHistory(0, Null), oldHistory |-> <<>>,
     concurrent |-> FALSE]

NoProbe == [fn |-> "none", path |-> <<>>, pattern |-> <<>>, result |-> "none"]

Init ==
    /\ options = DefaultOptions
    /\ setup = "none"
    /\ db = [r \in RecordIds |-> NoRecord]
    /\ mem = NoDoc
    /\ clock = 0
    /\ last = Done("init", "ok", NoRecord, NoIn, NoHook("ok"), FALSE)
    /\ appended = [r \in RecordIds |-> <<>>]
    /\ hooks = [p \in Procs |-> IdleHook]
    /\ probe = NoProbe

\* schema.plugin(mongooseTracker, o)
Configure(o) ==
    /\ setup = "none"
    /\ IF mongooseTrackerThrows(o)
       THEN /\ setup' = "error"
            /\ options' = options
            /\ last' = Done("configure", "Error", NoRecord, NoIn, NoHook("Error"), FALSE)
       ELSE /\ setup' = "ok"
            /\ options' = o
            /\ last' = Done("configure", "ok", NoRecord, NoIn, NoHook("ok"), FALSE)
    /\ UNCHANGED <<db, mem, clock, appended, probe, hooks>>

\* this.modifiedPaths() of a document built by new Model(fields): the
\* paths the constructor has set
TopPaths(fields) == SelectSeq(KeyOrder, LAMBDA key : HasKey(fields, key))

\* the (path, value) pairs of this.modifiedPaths()
RECURSIVE ModifiedEntries(_, _, _)
ModifiedEntries(this, paths, i) ==
    IF i > Len(paths) THEN <<>>
    ELSE <<E(paths[i], get(this.fields, paths[i]))>> \o ModifiedEntries(this, paths, i + 1)

\* Model.create(fields): new Model(fields) with doc._changedBy set, then
\* doc.save(); the caller keeps no handle on the created document.  The
\* records are created first, before the writes (at time `latest` at most).
CreateAt(r, fields, changedBy, latest) ==
    /\ setup = "ok"
    /\ clock <= latest
    /\ ~db[r].exists
    /\ LET Saved(this, h) ==
               /\ db' = IF h.st # "ok" THEN db
                        ELSE [db EXCEPT ![r] =
                                 [exists |-> TRUE, fields |-> fields,
                                  history |-> IF h.set THEN h.ledger ELSE this.history]]
               /\ appended' = [appended EXCEPT ![r] =
                                  IF h.st = "ok" /\ h.set THEN <<Record(h.hist)>> ELSE <<>>]
               /\ last' = Done("create", h.st, db[r],
                               In(r, ModifiedEntries(this, this.modified, 1), changedBy, FALSE),
                               h, FALSE)
           New(this) == Saved(this, preSave(options, this, db[r], clock))
       IN New([loaded |-> TRUE, id |-> r, isNew |-> TRUE, fields |-> fields,
               history |-> <<>>, changedBy |-> changedBy,
               modified |-> TopPaths(fields)])
    /\ mem' = NoDoc
    /\ clock' = clock + 1
    /\ UNCHANGED <<options, setup, probe, hooks>>

\* the record is created once, as the first write
Create(r, fields, changedBy) == CreateAt(r, fields, changedBy, 0)

\* doc = await Model.findById(r)
Load(r) ==
    /\ setup = "ok"
    /\ db[r].exists
    /\ mem' = [loaded |-> TRUE, id |-> r, isNew |-> FALSE, fields |-> db[r].fields,
               history |-> db[r].history, changedBy |-> Undef, modified |-> <<>>]
    /\ mem' # mem
    /\ last' = Done("load", "ok", db[r], In(r, <<>>, Undef, FALSE), NoHook("ok"), FALSE)
    /\ UNCHANGED <<options, setup, db, clock, appended, probe, hooks>>

\* the assignments of an edit applied to the in-memory document
RECURSIVE Assign(_, _, _)
Assign(fields, assign, i) ==
    IF i > Len(assign) THEN fields
    ELSE Assign(set(fields, assign[i].path, assign[i].value), assign, i + 1)

\* doc.set marks a path as modified only when the value it holds changes:
\* the paths of an edit that this.modifiedPaths() lists
Marked(fields, assigned, paths) ==
    SelectSeq(paths, LAMBDA path : ~isEqual(get(fields, path), get(assigned, path)))

\* the path addresses a value the document holds, or a key of the document
\* itself or of a structured value it holds: a caller does not assign to a
\* position of an array the document does not have
RECURSIVE AddressableParts(_, _, _)
AddressableParts(fields, parts, i) ==
    IF i > Len(parts) THEN TRUE
    ELSE IF IsIndex(parts[i]) /\ IsNullish(get(fields, Join(SubSeq(parts, 1, i))))
    THEN FALSE
    ELSE AddressableParts(fields, parts, i + 1)

Addressable(fields, assign) ==
    \A i \in 1..Len(assign) : AddressableParts(fields, Split(assign[i].path), 1)

\* the caller edits the loaded document and awaits doc.save(): the pre-save
\* hook runs, then mongoose persists the modified paths.  A document whose
\* save was rejected is dropped by the caller.
Save(e) ==
    /\ setup = "ok"
    /\ clock < MaxWrites
    /\ mem.loaded
    /\ Addressable(mem.fields, e.assign)
    /\ LET Saved(this, h, input, stale) ==
               IF h.st # "ok"
               THEN /\ db' = db
                    /\ appended' = appended
                    /\ mem' = NoDoc
                    /\ last' = Done("save", h.st, db[mem.id], input, h, stale)
               ELSE IF ~db[mem.id].exists
               THEN \* DocumentNotFoundError of mongoose
                    /\ db' = db
                    /\ appended' = appended
                    /\ mem' = NoDoc
                    /\ last' = Done("save", "notfound", db[mem.id], input, h, stale)
               ELSE /\ db' = [db EXCEPT ![mem.id] =
                               [exists |-> TRUE,
                                fields |-> PersistPaths(@.fields, this, this.modified, 1),
                                history |-> IF h.set THEN h.ledger ELSE @.history]]
                    /\ appended' = IF h.set
                                   THEN [appended EXCEPT ![mem.id] = Append(@, Record(h.hist))]
                                   ELSE appended
                    /\ mem' = [this EXCEPT !.modified = <<>>,
                                           !.history = IF h.set THEN h.ledger ELSE @]
                    /\ last' = Done("save", "ok", db[mem.id], input, h, stale)
           Edited(this) ==
               Saved(this, preSave(options, this, db[mem.id], clock),
                     In(mem.id, ModifiedEntries(this, this.modified, 1), e.changedBy, FALSE),
                     mem.history # db[mem.id].history)
           Assigned(fields) ==
               Edited([mem EXCEPT !.fields = fields,
                                  !.modified = Marked(mem.fields, fields, e.modified),
                                  !.changedBy = e.changedBy])
       IN Assigned(Assign(mem.fields, e.assign, 1))
    /\ clock' = clock + 1
    /\ UNCHANGED <<options, setup, probe, hooks>>

\* Model.updateOne / findOneAndUpdate / updateMany (filter, updatedFields,
\* qopts): the query hook runs, writes the new ledger of the first match
\* with skipMiddleware set, and then the update itself is applied to the
\* first match (to every match when many)
Update(many, filter, updatedFields, qopts) ==
    /\ setup = "ok"
    /\ clock < MaxWrites
    /\ LET \* docUpdated = findOne(query); updateOne(query, {[name]: ...})
           Tracked(store, first, h) ==
               IF h.st = "ok" /\ h.set /\ first # "none"
               THEN [store EXCEPT ![first].history =
                        appendToLedger(@, h.hist, options.limit)]
               ELSE store
           Applied(store, first) ==
               [r \in RecordIds |->
                   IF store[r].exists /\ r \in filter /\ (many \/ r = first)
                   THEN [store[r] EXCEPT !.fields = ApplyUpdate(@, updatedFields, 1)]
                   ELSE store[r]]
           Hooked(originalDoc, first, h) ==
               /\ db' = IF h.st # "ok" THEN db ELSE Applied(Tracked(db, first, h), first)
               /\ appended' = IF h.st = "ok" /\ h.set /\ first # "none"
                               THEN [appended EXCEPT ![first] = Append(@, Record(h.hist))]
                               ELSE appended
               /\ last' = [Done("update", h.st, originalDoc,
                                In(first, updatedFields, qopts.changedBy, qopts.skipMiddleware),
                                h, FALSE) EXCEPT !.many = many, !.filter = filter]
           Found(originalDoc) ==
               Hooked(originalDoc, FirstMatch(db, filter, 1),
                      preUpdateDiff(options, updatedFields, qopts, originalDoc, clock))
       IN Found(findOne(db, filter))
    /\ clock' = clock + 1
    /\ UNCHANGED <<options, setup, mem, probe, hooks>>

\* Model.deleteOne({ _id: r })
Remove(r) ==
    /\ setup = "ok"
    /\ clock < MaxWrites
    /\ db[r].exists
    /\ db' = [db EXCEPT ![r] = NoRecord]
    /\ appended' = [appended EXCEPT ![r] = <<>>]
    /\ last' = Done("remove", "ok", db[r], In(r, <<>>, Undef, FALSE), NoHook("ok"), FALSE)
    /\ clock' = clock + 1
    /\ UNCHANGED <<options, setup, mem, probe, hooks>>

Next ==
    \/ \E o \in OptionSets : Configure(o)
    \/ \E r \in SingleIds, d \in InitialDocs, by \in {Undef, user1} : Create(r, d, by)
    \/ \E r \in RecordIds : Load(r)
    \/ \E e \in Edits(clock) : Save(e)
    \/ \E q \in Queries(clock) : Update(q.many, q.filter, q.update, q.qopts)
    \/ \E r \in RecordIds : Remove(r)

Spec == Init /\ [][Next]_vars

----------------------------------------------------------------------------
(* The first save of a new document on its own: the plugin is configured   *)
(* and Model.create is called with any part of the fields of Doc1          *)

NewDocs == { Obj([key \in keys |-> Doc1.v[key]]) : keys \in SUBSET (DOMAIN Doc1.v) }

NextNew ==
    \/ \E o \in OptionSets : Configure(o)
    \/ \E r \in SingleIds, d \in NewDocs, by \in {Undef, user1} : Create(r, d, by)

SpecNew == Init /\ [][NextNew]_vars

----------------------------------------------------------------------------
(* The pattern matcher on its own: a path and a pattern are drawn, then     *)
(* doesFieldNameMatchPattern or isValidPattern is applied to them           *)

PathChars == {"a", ".", "0"}

PatternChars == {"a", ".", "$", "+", "["}

\* the strings over chars of length n at most
RECURSIVE Strings(_, _)
Strings(chars, n) ==
    IF n = 0 THEN {<<>>}
    ELSE LET shorter == Strings(chars, n - 1)
         IN shorter \cup {Append(str, c) : str \in shorter, c \in chars}

p_orders_items_price == <<"o","r","d","e","r","s",".","$",".","i","t","e","m","s",".","$",".","p","r","i","c","e">>

\* the calls the tests and the documentation make
ExampleProbes ==
    { <<<<"o","r","d","e","r","s",".","0",".","i","t","e","m","s",".","1",".","p","r","i","c","e">>, p_orders_items_price>>,
      <<<<"o","r","d","e","r","s",".","0",".","p","r","i","c","e">>, p_orders_items_price>>,
      <<<<"o","r","d","e","r","s",".","1","0",".","i","t","e","m","s",".","2","1",".","p","r","i","c","e">>, p_orders_items_price>>,
      <<<<"o","r","d","e","r","s",".","0",".","i","t","e","m","s",".","1",".","p","r","i","c","e","s">>, p_orders_items_price>>,
      <<<<"o","r","d","e","r","s",".","0",".","i","t","e","m","s",".","x",".","p","r","i","c","e">>, p_orders_items_price>>,
      <<<<"o","r","d","e","r","s",".","0",".","i","t","e","m","s",".","1",".","p","r","i","c","e">>, <<"i","n","v","a","l","i","d",".","[","f","i","e","l","d">>>> }

ProbeInputs ==
    (Strings(PathChars, MaxPatternLen) \X Strings(PatternChars, MaxPatternLen))
    \cup ExampleProbes

\* the outcome of the call doesFieldNameMatchPattern(fieldPath, pattern):
\* "throw" when new RegExp throws, else the result of regex.test
callMatcher(fieldPath, pattern) ==
    IF MatcherThrows(pattern) THEN "throw"
    ELSE IF doesFieldNameMatchPattern(fieldPath, pattern) THEN "true"
    ELSE "false"

InitPattern ==
    /\ options = DefaultOptions
    /\ setup = "none"
    /\ db = [r \in RecordIds |-> NoRecord]
    /\ mem = NoDoc
    /\ clock = 0
    /\ last = Done("init", "ok", NoRecord, NoIn, NoHook("ok"), FALSE)
    /\ appended = [r \in RecordIds |-> <<>>]
    /\ hooks = [p \in Procs |-> IdleHook]
    /\ \E in \in ProbeInputs :
          probe = [fn |-> "none", path |-> in[1], pattern |-> in[2], result |-> "none"]

ProbeMatch ==
    /\ probe.fn = "none"
    /\ probe' = [probe EXCEPT !.fn = "doesFieldNameMatchPattern",
                              !.result = callMatcher(probe.path, probe.pattern)]
    /\ UNCHANGED <<options, setup, db, mem, clock, last, appended, hooks>>

ProbeValid ==
    /\ probe.fn = "none"
    /\ probe' = [probe EXCEPT !.fn = "isValidPattern",
                              !.result = IF isValidPattern(probe.pattern)
                                         THEN "true" ELSE "false"]
    /\ UNCHANGED <<options, setup, db, mem, clock, last, appended, hooks>>

NextPattern == ProbeMatch \/ ProbeValid

SpecPattern == InitPattern /\ [][NextPattern]_vars

----------------------------------------------------------------------------
(* The array differ on its own: two arrays are drawn, then                  *)
(* findArrayDifferences is applied to them.  The elements are plain values, *)
(* as normalizeItem leaves them.                                            *)

\* elements: a primitive, two versions of the element i1, the element i2
\* and an element without _id
ElementPool ==
    { Prim(<<"t","1">>),
      item1,
      Obj(s_id :> Oid(<<"i","1">>) @@ s_name :> Prim(<<"n","9">>)
          @@ s_display :> Oid(<<"p","1">>)),
      item2,
      Obj(s_name :> Prim(<<"n","1">>)) }

\* the arrays over the pool of length n at most
RECURSIVE Arrays(_)
Arrays(n) ==
    IF n = 0 THEN {<<>>}
    ELSE LET shorter == Arrays(n - 1)
         IN shorter \cup {Append(a, x) : a \in shorter, x \in ElementPool}

InitDiffer ==
    /\ options = DefaultOptions
    /\ setup = "none"
    /\ db = [r \in RecordIds |-> NoRecord]
    /\ mem = NoDoc
    /\ clock = 0
    /\ last = Done("init", "ok", NoRecord, NoIn, NoHook("ok"), FALSE)
    /\ appended = [r \in RecordIds |-> <<>>]
    /\ hooks = [p \in Procs |-> IdleHook]
    /\ \E oldArray \in Arrays(MaxArrayLen), newArray \in Arrays(MaxArrayLen) :
          probe = [fn |-> "none", oldArray |-> oldArray, newArray |-> newArray,
                   result |-> [added |-> <<>>, removed |-> <<>>]]

ProbeDiffer ==
    /\ probe.fn = "none"
    /\ probe' = [probe EXCEPT !.fn = "findArrayDifferences",
                              !.result = findArrayDifferences(probe.oldArray, probe.newArray)]
    /\ UNCHANGED <<options, setup, db, mem, clock, last, appended, hooks>>

NextDiffer == ProbeDiffer

SpecDiffer == InitDiffer /\ [][NextDiffer]_vars

----------------------------------------------------------------------------
(* Two query-updates run at the same time: each hook is a sequence of      *)
(* steps separated by the awaits at which the other one can run             *)

RaceQueries ==
    { Query(FALSE, {"r1"}, <<E(s_name, vA)>>, Q(Undef, FALSE)),
      Query(FALSE, {"r1"}, <<E(s_name, vB)>>, Q(user1, FALSE)),
      Query(FALSE, {"r1"}, <<E(s_due, d2)>>, Q(Undef, FALSE)),
      Query(TRUE, {"r1"}, <<E(s_tags, Arr(<<Prim(<<"t","1">>)>>))>>, Q(Undef, FALSE)),
      Query(FALSE, {"r1"}, <<E(s_name, vB)>>, Q(Undef, TRUE)),
      Query(FALSE, {}, <<E(s_name, vB)>>, Q(Undef, FALSE)) }

\* the hook is called: originalDoc = await findOne(query), then the diff,
\* up to the test of history.changes.  A hook that found nothing to record
\* calls next(); one whose diff threw rejects the query.
HookBegin(p, q) ==
    /\ setup = "ok"
    /\ hooks[p].pc = "idle"
    /\ LET Began(h) ==
               hooks' = [hooks EXCEPT ![p] =
                   [pc |-> IF h.st # "ok" THEN "failed"
                           ELSE IF h.set THEN "read" ELSE "apply",
                    query |-> q, st |-> h.st, set |-> h.set,
                    hist |-> IF h.built THEN h.hist ELSE NewHistory(clock, Null),
                    oldHistory |-> <<>>,
                    concurrent |-> \E o \in Procs \ {p} :
                                       hooks[o].pc \in {"read", "write"}]]
       IN Began(preUpdateDiff(options, q.update, q.qopts, findOne(db, q.filter), clock))
    /\ clock' = clock + 1
    /\ UNCHANGED <<options, setup, db, mem, last, appended, probe>>

\* docUpdated = await findOne(query); oldHistory = docUpdated.get(name)
HookRead(p) ==
    /\ hooks[p].pc = "read"
    /\ LET Read(docUpdated) ==
               hooks' = [hooks EXCEPT ![p].pc = IF docUpdated.exists THEN "write" ELSE "apply",
                                      ![p].oldHistory = docUpdated.history]
       IN Read(findOne(db, hooks[p].query.filter))
    /\ UNCHANGED <<options, setup, db, mem, clock, last, appended, probe>>

\* await updateOne(query, { [name]: takeRight([...oldHistory, history], limit) },
\* { skipMiddleware: true }), then next()
HookWrite(p) ==
    /\ hooks[p].pc = "write"
    /\ LET Written(first) ==
               /\ db' = IF first = "none" THEN db
                        ELSE [db EXCEPT ![first].history =
                                 appendToLedger(hooks[p].oldHistory, hooks[p].hist,
                                                options.limit)]
               /\ appended' = IF first = "none" THEN appended
                              ELSE [appended EXCEPT ![first] =
                                       Append(@, Record(hooks[p].hist))]
       IN Written(FirstMatch(db, hooks[p].query.filter, 1))
    /\ hooks' = [hooks EXCEPT ![p].pc = "apply"]
    /\ UNCHANGED <<options, setup, mem, clock, last, probe>>

\* the update the query was called for is applied
HookApply(p) ==
    /\ hooks[p].pc = "apply"
    /\ LET Applied(q, first) ==
               db' = [r \in RecordIds |->
                         IF db[r].exists /\ r \in q.filter /\ (q.many \/ r = first)
                         THEN [db[r] EXCEPT !.fields = ApplyUpdate(@, q.update, 1)]
                         ELSE db[r]]
       IN Applied(hooks[p].query, FirstMatch(db, hooks[p].query.filter, 1))
    /\ hooks' = [hooks EXCEPT ![p].pc = "done"]
    /\ UNCHANGED <<options, setup, mem, clock, last, appended, probe>>

NextRace ==
    \/ \E o \in OptionSets : Configure(o)
    \/ \E r \in SingleIds, d \in InitialDocs : Create(r, d, Undef)
    \/ \E p \in Procs, q \in RaceQueries : HookBegin(p, q)
    \/ \E p \in Procs : HookRead(p)
    \/ \E p \in Procs : HookWrite(p)
    \/ \E p \in Procs : HookApply(p)

SpecRace == Init /\ [][NextRace]_vars

----------------------------------------------------------------------------
(* Query-updates of a collection of two records                            *)

ManyQueries ==
    { Query(TRUE, {"r1", "r2"}, <<E(s_name, vB)>>, Q(user1, FALSE)),
      Query(TRUE, {"r1", "r2"}, <<E(s_name, vA)>>, Q(Undef, FALSE)),
      Query(TRUE, {"r1", "r2"}, <<E(s_tags, Arr(<<Prim(<<"t","1">>)>>))>>, Q(user1, FALSE)),
      Query(TRUE, {"r2"}, <<E(s_name, vA)>>, Q(user1, FALSE)),
      Query(FALSE, {"r1", "r2"}, <<E(s_name, vB)>>, Q(user1, FALSE)),
      Query(FALSE, {"r1", "r2"}, <<E(s_due, d2)>>, Q(Undef, FALSE)) }

NextMany ==
    \/ \E o \in OptionSets : Configure(o)
    \/ \E r \in RecordIds, d \in InitialDocs : CreateAt(r, d, Undef, 1)
    \/ \E q \in ManyQueries : Update(q.many, q.filter, q.update, q.qopts)

SpecMany == Init /\ [][NextMany]_vars

----------------------------------------------------------------------------
(* The reference resolver on its own: a document (given by its schema), a   *)
(* field of it and a value are drawn, then one of the two entry points is   *)
(* applied to them                                                          *)

\* the fields of the schemas a value is resolved for
ResolverFields ==
    { <<"Order", s_supplier>>, <<"Order", s_product>>,
      <<"Order", P(P(s_items, <<"0">>), s_display)>>,
      <<"Order", P(s_group, s_display)>>,
      <<"Product", s_display>>, <<"Supplier", s_display>>,
      <<"Catalog", s_display>>, <<"Category", s_display>>,
      <<"Order", s_name>> }

\* the identifiers of the stored records and of two records that do not
\* exist
ResolverIds ==
    UNION { DOMAIN RefDocs[m] : m \in DOMAIN RefDocs } \cup {<<"s","9">>, <<"g","9">>}

ResolverValues ==
    {Undef, Null, Prim(<<"S","1">>)}
    \cup { Oid(id) : id \in ResolverIds } \cup { Hex(id) : id \in ResolverIds }

InitResolver ==
    /\ options = DefaultOptions
    /\ setup = "none"
    /\ db = [r \in RecordIds |-> NoRecord]
    /\ mem = NoDoc
    /\ clock = 0
    /\ last = Done("init", "ok", NoRecord, NoIn, NoHook("ok"), FALSE)
    /\ appended = [r \in RecordIds |-> <<>>]
    /\ hooks = [p \in Procs |-> IdleHook]
    /\ \E f \in ResolverFields, value \in ResolverValues :
          probe = [fn |-> "none", schema |-> f[1], field |-> f[2], value |-> value,
                   result |-> Res("none", Undef, 0)]

ProbeValue ==
    /\ probe.fn = "none"
    /\ probe' = [probe EXCEPT !.fn = "returnDisplayFromDocumentForValue",
                              !.result = returnDisplayFromDocumentForValue(
                                             probe.schema, probe.field, probe.value)]
    /\ UNCHANGED <<options, setup, db, mem, clock, last, appended, hooks>>

ProbeField ==
    /\ probe.fn = "none"
    /\ probe' = [probe EXCEPT !.fn = "returnDisplayFromDocumentForField",
                              !.result = returnDisplayFromDocumentForField(
                                             probe.schema, probe.field, probe.field,
                                             probe.value)]
    /\ UNCHANGED <<options, setup, db, mem, clock, last, appended, hooks>>

NextResolver == ProbeValue \/ ProbeField

SpecResolver == InitResolver /\ [][NextResolver]_vars

----------------------------------------------------------------------------
(* Properties of the system                                                *)

\* the last operation was a save or a query-update of an existing record
\* that did not carry the bypass flag
IsWrite == last.op \in {"save", "update"} /\ last.before.exists /\ ~last.skip

\* the value the prior persisted snapshot holds at a path
Prior(path) == get(last.before.fields, path)

\* the Changes of all the records of all the persisted ledgers
StoredNow ==
    UNION { UNION { { db[r].history[i].changes[j] :
                        j \in 1..Len(db[r].history[i].changes) } :
                    i \in 1..Len(db[r].history) } :
            r \in RecordIds }

\* the Changes of the last History that were read at the given path
ChangesAt(path) == SelectSeq(last.hist.changes, LAMBDA c : c.src = path)

\* the Changes of the last History made while the hook processed the given
\* modified path or update key
ChangesUnder(path) == SelectSeq(last.hist.changes, LAMBDA c : c.top = path)

\* a string, number, boolean or date
IsScalar(x) == x.k \in {"prim", "date"}

\* the path ends with the label key `_display`
IsLabel(path) == Split(path)[Len(Split(path))] = s_display

\* C1: the persisted ledger never holds more than `limit` records, and once
\* more than `limit` records have been appended to it, it holds exactly the
\* `limit` most recently appended ones, oldest first.
C1_LedgerBound ==
    \A r \in RecordIds :
        /\ Len(db[r].history) <= options.limit
        /\ Len(appended[r]) > options.limit
              => db[r].history = takeRight(appended[r], options.limit)

\* C2: a write that gives a tracked scalar field a value different from the
\* one of the prior snapshot appends exactly one record, which holds exactly
\* one Change for that field, with before the prior value (null if absent)
\* and after the new value; the action is `updated` when the write carries
\* no array.
C2_OneChangePerChangedScalar ==
    IsWrite =>
        \A i \in 1..Len(last.input) :
            LET path == last.input[i].path
                value == last.input[i].value
            IN (/\ shouldTrackField(options, path) = "true"
                /\ ~IsLabel(path)
                /\ IsScalar(value)
                /\ IsScalar(Prior(path)) \/ Prior(path) = Undef
                /\ ~isEqual(Prior(path), value))
               => /\ last.st = "ok"
                  /\ last.set
                  /\ Len(db[last.id].history) > 0
                  /\ db[last.id].history[Len(db[last.id].history)] = last.hist
                  /\ Len(ChangesAt(path)) = 1
                  /\ ChangesAt(path)[1].before = Coalesce(Prior(path), Null)
                  /\ ChangesAt(path)[1].after = value
                  /\ (\A n \in 1..Len(last.input) : ~isArray(last.input[n].value))
                        => last.hist.action = "updated"

\* every written path carries a value equal to the one of the prior snapshot
IsNoOp ==
    /\ IsWrite
    /\ \A i \in 1..Len(last.input) :
           isEqual(last.input[i].value, Prior(last.input[i].path))

\* C3: a write in which every written path carries a value equal to its
\* prior value yields no Change and leaves the ledger as it was, under both
\* protocols and for every shape of field.
C3_NoOpYieldsNothing ==
    IsNoOp => /\ Len(last.hist.changes) = 0
              /\ db[last.id].history = last.before.history

\* C4: in every Change of every record of a ledger, before and after are not
\* both null and are not equal.
C4_NoNullNoEqual ==
    \A c \in StoredNow :
        /\ ~(c.before = Null /\ c.after = Null)
        /\ ~isEqual(c.before, c.after)

\* C5: every record of a ledger has a non-empty changes list, and a write
\* whose computed changes list is empty appends nothing and leaves the
\* ledger as it was.
C5_NoEmptyRecord ==
    /\ \A r \in RecordIds :
           \A i \in 1..Len(db[r].history) : Len(db[r].history[i].changes) > 0
    /\ (IsWrite /\ last.built /\ Len(last.hist.changes) = 0)
          => /\ ~last.set
             /\ db[last.id].history = last.before.history

\* a save diffed the document, found no change, and the ledger it left alone
\* holds a record
C5_Witness ==
    /\ last.op = "save"
    /\ last.built
    /\ Len(last.input) > 0
    /\ Len(last.hist.changes) = 0
    /\ Len(db[last.id].history) > 0

\* C6: the first save of a new record appends nothing: its ledger is empty
\* afterwards, whatever its fields and whatever actor is set on it.
C6_NewRecordSuppressed ==
    last.op = "create"
       => /\ last.st = "ok"
          /\ ~last.built
          /\ db[last.id].exists
          /\ db[last.id].history = <<>>
          /\ appended[last.id] = <<>>

\* a new record with fields and an actor has been saved
C6_Witness ==
    /\ last.op = "create"
    /\ last.by = user1
    /\ Len(last.input) > 1
    /\ db[last.id].exists

\* C7: no Change of any record of a ledger is derived from the value at a
\* path that starts with an entry of fieldsNotToTrack, whether the path is a
\* modified path or update key or is reached by descending into a tracked
\* structured value.
C7_ExcludedNeverTracked ==
    \A c \in StoredNow :
        \A n \in 1..Len(options.fieldsNotToTrack) :
            ~StartsWith(c.src, options.fieldsNotToTrack[n])

\* the whole path equals the pattern with every `$` replaced by a non-empty
\* string of digits, every other character of the pattern, the dot
\* included, standing for itself
RECURSIVE LiteralMatch(_, _)
LiteralMatch(path, pattern) ==
    IF Len(pattern) = 0 THEN Len(path) = 0
    ELSE IF Head(pattern) = "$"
    THEN \E n \in 1..Len(path) :
            /\ IsIndex(SubSeq(path, 1, n))
            /\ LiteralMatch(SubSeq(path, n + 1, Len(path)), Tail(pattern))
    ELSE /\ Len(path) > 0
         /\ Head(path) = Head(pattern)
         /\ LiteralMatch(Tail(path), Tail(pattern))

\* shouldTrackField as it is specified: false under an excluded prefix, else
\* true for an empty fieldsToTrack, else true iff some pattern matches
ShouldTrack(opts, path) ==
    IF \E n \in 1..Len(opts.fieldsNotToTrack) :
           StartsWith(path, opts.fieldsNotToTrack[n])
    THEN FALSE
    ELSE IF opts.fieldsToTrack = <<>> THEN TRUE
    ELSE \E n \in 1..Len(opts.fieldsToTrack) : LiteralMatch(path, opts.fieldsToTrack[n])

\* C8: for every modified path or update key of a write, shouldTrackField is
\* false if the path starts with an entry of fieldsNotToTrack, else true if
\* fieldsToTrack is empty, else true iff the path matches one of its
\* patterns; and a path for which it is false contributes no Change.
C8_ShouldTrackField ==
    IsWrite =>
        \A i \in 1..Len(last.input) :
            LET path == last.input[i].path IN
            /\ shouldTrackField(options, path)
                  = (IF ShouldTrack(options, path) THEN "true" ELSE "false")
            /\ ~ShouldTrack(options, path) => ChangesUnder(path) = <<>>

\* C9: doesFieldNameMatchPattern(path, pattern) is true iff the whole path
\* equals the pattern with every `$` replaced by a non-empty string of
\* digits, the dot being a literal separator.
C9_MatchIsLiteral ==
    probe.fn = "doesFieldNameMatchPattern"
       => (probe.result = "true" <=> LiteralMatch(probe.path, probe.pattern))

\* C10: every pattern of an accepted configuration passed the validation,
\* and no write fails later because one of them does not compile.
C10_NoLateSyntaxError ==
    /\ setup = "ok"
          => \A i \in 1..Len(options.fieldsToTrack) :
                 isValidPattern(options.fieldsToTrack[i])
    /\ last.op \in {"save", "update"} => last.st # "SyntaxError"

\* two array elements are the same one: both carry an _id and the ids are
\* the same, or else they are deeply equal
CarriesId(a) == HasKey(a, s_id) /\ ~IsNullish(a.v[s_id])

SameElement(a, b) ==
    IF CarriesId(a) /\ CarriesId(b) THEN ToStr(a.v[s_id]) = ToStr(b.v[s_id]) ELSE a = b

\* the elements of array that have no equal element in other, in the order
\* of array
Missing(array, other) ==
    SelectSeq(array, LAMBDA x : \A i \in 1..Len(other) : ~SameElement(x, other[i]))

\* the array the prior snapshot holds at a path (none counts as empty)
PriorArray(path) == IF isArray(Prior(path)) THEN Prior(path).v ELSE <<>>

\* entry i of the last write gives a tracked path an array value, and the
\* prior snapshot holds an array or nothing there
IsArrayEntry(i) ==
    /\ isArray(last.input[i].value)
    /\ shouldTrackField(options, last.input[i].path) = "true"
    /\ isArray(Prior(last.input[i].path)) \/ IsNullish(Prior(last.input[i].path))

RemovedAt(i) == Missing(PriorArray(last.input[i].path), last.input[i].value.v)

AddedAt(i) == Missing(last.input[i].value.v, PriorArray(last.input[i].path))

\* what a Change records for the k-th element of a list of removed or added
\* elements: the resolved display of an object, the raw value of a primitive
ElementLabel(path, elements, k) ==
    IF elements[k].k = "obj"
    THEN returnDisplayFromDocumentForValue(
             "Order", P(P(path, NumText(k - 1)), s_display),
             Prop(elements[k], s_display)).v
    ELSE elements[k]

\* the (before, after) pairs of a sequence of Changes
Sides(changes) == [k \in 1..Len(changes) |-> <<changes[k].before, changes[k].after>>]

RemovalSides(path, elements) ==
    [k \in 1..Len(elements) |-> <<ElementLabel(path, elements, k), Null>>]

AdditionSides(path, elements) ==
    [k \in 1..Len(elements) |-> <<Null, ElementLabel(path, elements, k)>>]

\* two sequences hold the same elements the same number of times
SameBag(s, u) ==
    /\ Len(s) = Len(u)
    /\ \A k \in 1..Len(s) :
           Cardinality({m \in 1..Len(s) : s[m] = s[k]})
               = Cardinality({m \in 1..Len(u) : u[m] = s[k]})

\* some tracked array of the last write lost an element
AnyRemoved == \E n \in 1..Len(last.input) : IsArrayEntry(n) /\ Len(RemovedAt(n)) > 0

\* C11: for a tracked array value of a write, if elements were removed the
\* record's action is `removed` and the record holds exactly one Change per
\* removed element (before its resolved display or raw value, after null)
\* and none for an added element; otherwise, if elements were added, the
\* action is `added` (unless another array of the write lost an element)
\* and the record holds exactly one Change per added element (before null);
\* otherwise the array contributes no Change.
C11_ArrayChanges ==
    (/\ IsWrite
     /\ \A n \in 1..Len(last.input) :
            shouldTrackField(options, last.input[n].path) # "throw")
    => \A i \in 1..Len(last.input) :
           IsArrayEntry(i) =>
               LET path == last.input[i].path IN
               /\ last.st = "ok"
               /\ IF Len(RemovedAt(i)) > 0
                  THEN /\ last.hist.action = "removed"
                       /\ SameBag(Sides(ChangesUnder(path)),
                                  RemovalSides(path, RemovedAt(i)))
                  ELSE IF Len(AddedAt(i)) > 0
                  THEN /\ last.hist.action = (IF AnyRemoved THEN "removed" ELSE "added")
                       /\ SameBag(Sides(ChangesUnder(path)),
                                  AdditionSides(path, AddedAt(i)))
                  ELSE ChangesUnder(path) = <<>>

\* C12: findArrayDifferences(old, new) returns as added exactly the elements
\* of new without an equal element in old, and as removed exactly the
\* elements of old without an equal element in new, each in the order of
\* its array, two elements being equal iff both carry an _id and the ids
\* match, or else iff they are deeply equal; a reordering of the same
\* elements yields neither.
C12_DifferIsSetDifference ==
    probe.fn = "findArrayDifferences"
       => /\ probe.result.added = Missing(probe.newArray, probe.oldArray)
          /\ probe.result.removed = Missing(probe.oldArray, probe.newArray)
          /\ SameBag(probe.oldArray, probe.newArray)
                => probe.result = [added |-> <<>>, removed |-> <<>>]

\* the differ was given two versions of one element (same _id, different
\* content) and found an element added and an element removed
C12_Witness ==
    /\ probe.fn = "findArrayDifferences"
    /\ Len(probe.result.added) > 0
    /\ Len(probe.result.removed) > 0
    /\ \E i \in 1..Len(probe.oldArray), j \in 1..Len(probe.newArray) :
          /\ CarriesId(probe.oldArray[i])
          /\ SameElement(probe.oldArray[i], probe.newArray[j])
          /\ probe.oldArray[i] # probe.newArray[j]

\* C13: after a write that produced a record, the persisted ledger is the
\* last `limit` entries of the ledger persisted before that write followed
\* by the record, also when the write is a save of a document loaded before
\* an earlier write; a write that produced none leaves the ledger as it was.
C13_AppendLaw ==
    (IsWrite /\ last.st = "ok")
    => db[last.id].history
          = IF last.set
            THEN takeRight(Append(last.before.history, last.hist), options.limit)
            ELSE last.before.history

\* C14: two query-updates of one record whose hooks do not overlap keep
\* both their records: as long as no hook began while another one stood
\* between reading the ledger and writing it back, the persisted ledger is
\* the last `limit` of the records appended.  (That overlapping hooks can
\* lose a record is the reachability of C14_Witness.)
C14_NonOverlappingKeepBoth ==
    (\A p \in Procs : ~hooks[p].concurrent)
    => \A r \in RecordIds : db[r].history = takeRight(appended[r], options.limit)

\* two hooks overlapped, both appended a record, the limit is not reached
\* and the persisted ledger holds only one of the two records
C14_Witness ==
    /\ \A p \in Procs : hooks[p].pc = "done" /\ hooks[p].set
    /\ \E p \in Procs : hooks[p].concurrent
    /\ options.limit >= 2
    /\ Len(appended["r1"]) = 2
    /\ Len(db["r1"].history) = 1

\* the last operation was a query-update that carried the bypass flag, or an
\* empty update, or matched no record
IsBypassedUpdate ==
    /\ last.op = "update"
    /\ last.skip \/ Len(last.input) = 0 \/ ~last.before.exists

\* the last operation was a save of a document whose persisted record is gone
IsSaveWithoutSnapshot == last.op = "save" /\ ~last.before.exists

\* C15: a query-update that carries skipMiddleware, or an empty update, or
\* matches no record is not tracked, leaves every ledger as it was and ends
\* without error; a save whose prior persisted snapshot cannot be found
\* appends nothing either, and its hook ends without error.
C15_NothingTracked ==
    [][ clock' # clock =>
          /\ IsBypassedUpdate' =>
                 /\ last'.st = "ok"
                 /\ ~last'.built
                 /\ \A r \in RecordIds : db'[r].history = db[r].history
                 /\ appended' = appended
          /\ IsSaveWithoutSnapshot' =>
                 /\ last'.hook = "ok"
                 /\ ~last'.built
                 /\ \A r \in RecordIds : db'[r].history = db[r].history
                 /\ appended' = appended ]_vars

\* a query-update that carried skipMiddleware changed a tracked field of a
\* record
C15_Witness ==
    /\ last.op = "update"
    /\ last.skip
    /\ last.before.exists
    /\ \E i \in 1..Len(last.input) :
          /\ shouldTrackField(options, last.input[i].path) = "true"
          /\ ~isEqual(Prior(last.input[i].path), last.input[i].value)
          /\ isEqual(get(db[last.id].fields, last.input[i].path), last.input[i].value)

\* C16: in a query-update an entry that is a directive (an operator key
\* such as $inc) produces no Change, whatever fieldsToTrack is, and an
\* update made only of directives leaves the ledger as it was.
C16_DirectivesIgnored ==
    (last.op = "update" /\ last.before.exists /\ ~last.skip)
    => /\ \A i \in 1..Len(last.input) :
              IsOperator(last.input[i].path) => ChangesUnder(last.input[i].path) = <<>>
       /\ (/\ Len(last.input) > 0
           /\ \A i \in 1..Len(last.input) : IsOperator(last.input[i].path))
              => db[last.id].history = last.before.history

\* C17: after an updateMany that is tracked and gives a tracked scalar
\* field a new value, the ledger of every record the filter matched whose
\* own value differed holds a record of that update, with the changedBy
\* supplied (when one was) and a Change from the record's own value to the
\* new one.
C17_EveryMatchTracked ==
    [][ (/\ clock' # clock
         /\ last'.op = "update"
         /\ last'.many
         /\ ~last'.skip
         /\ \A n \in 1..Len(last'.input) :
                shouldTrackField(options, last'.input[n].path) = "true")
        => \A r \in last'.filter, i \in 1..Len(last'.input) :
               (/\ db[r].exists
                /\ IsScalar(last'.input[i].value)
                /\ ~isEqual(get(db[r].fields, last'.input[i].path), last'.input[i].value))
               => \E k \in 1..Len(db'[r].history) :
                      /\ db'[r].history[k].at = clock
                      /\ ~IsNullish(last'.by) => db'[r].history[k].changedBy = last'.by
                      /\ \E m \in 1..Len(db'[r].history[k].changes) :
                             LET c == db'[r].history[k].changes[m] IN
                             /\ c.src = last'.input[i].path
                             /\ c.before = Coalesce(get(db[r].fields, last'.input[i].path), Null)
                             /\ c.after = last'.input[i].value ]_vars

\* C18: the record a write appends carries as changedBy the actor supplied
\* with that write (_changedBy of the document for a save, the option
\* changedBy for a query-update), and null when none was supplied.
C18_ChangedByIsActor ==
    (IsWrite /\ last.st = "ok" /\ last.set)
    => /\ Len(db[last.id].history) > 0
       /\ db[last.id].history[Len(db[last.id].history)].at = last.hist.at
       /\ db[last.id].history[Len(db[last.id].history)].changedBy
             = Coalesce(last.by, Null)

\* a reference identifier or no value
IsIdOrNone(x) == isObjectIdValid(x) \/ IsNullish(x)

\* the label of the record of a model an identifier refers to: its
\* _display, or the raw identifier (null for no value) when there is no
\* such record
LabelOf(model, id) ==
    IF IsNullish(id) THEN Null
    ELSE IF ToStr(id) \in DOMAIN RefDocs[model]
            /\ HasKey(RefDocs[model][ToStr(id)], s_display)
    THEN RefDocs[model][ToStr(id)].v[s_display]
    ELSE id

\* entry i of the last write gives a tracked reference field another
\* identifier
IsReferenceEntry(i) ==
    /\ SchemaRef("Order", last.input[i].path) # ""
    /\ shouldTrackField(options, last.input[i].path) = "true"
    /\ IsIdOrNone(last.input[i].value)
    /\ IsIdOrNone(Prior(last.input[i].path))
    /\ isObjectIdValid(last.input[i].value) \/ isObjectIdValid(Prior(last.input[i].path))
    /\ ToStr(last.input[i].value) # ToStr(Prior(last.input[i].path))

RECURSIVE FullLabel(_, _)
FullLabel(model, value) ==
    IF IsNullish(value) THEN Null
    ELSE IF ~isObjectIdValid(value) \/ model = "" THEN value
    ELSE IF ToStr(value) \notin DOMAIN RefDocs[model] THEN value
    ELSE IF ~HasKey(RefDocs[model][ToStr(value)], s_display) THEN value
    ELSE FullLabel(SchemaRef(model, s_display), RefDocs[model][ToStr(value)].v[s_display])

\* the (before, after) pairs of the Changes of the removed or added object
\* elements of the array at a path, with fully resolved labels
FullRemovalSides(path, elements) ==
    [k \in 1..Len(elements) |->
        <<FullLabel(SchemaRef("Order", P(P(path, <<"0">>), s_display)),
                    Prop(elements[k], s_display)), Null>>]

FullAdditionSides(path, elements) ==
    [k \in 1..Len(elements) |->
        <<Null, FullLabel(SchemaRef("Order", P(P(path, <<"0">>), s_display)),
                          Prop(elements[k], s_display))>>]

\* entry i of the last write gives a tracked path an array of objects
IsObjectArrayEntry(i) ==
    /\ IsArrayEntry(i)
    /\ \A k \in 1..Len(last.input[i].value.v) : last.input[i].value.v[k].k = "obj"
    /\ \A k \in 1..Len(PriorArray(last.input[i].path)) :
           PriorArray(last.input[i].path)[k].k = "obj"

\* C20: every label recorded for a reference is fully resolved: the before
\* and after of the Change of a reference field, and the display of a
\* removed or added array element, are the _display reached by following
\* the identifiers from record to record until a value that is not the
\* identifier of an existing record.
C20_LabelsFullyResolved ==
    (/\ IsWrite
     /\ last.st = "ok"
     /\ \A n \in 1..Len(last.input) :
            shouldTrackField(options, last.input[n].path) # "throw")
    => \A i \in 1..Len(last.input) :
           LET path == last.input[i].path IN
           /\ IsReferenceEntry(i) =>
                  \A k \in 1..Len(ChangesUnder(path)) :
                      /\ ChangesUnder(path)[k].before
                            = FullLabel(SchemaRef("Order", path), Prior(path))
                      /\ ChangesUnder(path)[k].after
                            = FullLabel(SchemaRef("Order", path), last.input[i].value)
           /\ IsObjectArrayEntry(i) =>
                  SameBag(Sides(ChangesUnder(path)),
                          IF Len(RemovedAt(i)) > 0
                          THEN FullRemovalSides(path, RemovedAt(i))
                          ELSE FullAdditionSides(path, AddedAt(i)))

\* a resolver was applied to the probe
IsResolved ==
    probe.fn \in {"returnDisplayFromDocumentForValue", "returnDisplayFromDocumentForField"}

\* C21: reference resolution terminates for every stored reference graph,
\* also one in which the _display of a record leads back to that record:
\* applied to an identifier of a field that declares a reference, or to a
\* value that is no identifier, it returns a value and does not throw.
C21_ResolutionTerminates ==
    IsResolved
    => /\ probe.result.st # "hang"
       /\ (SchemaRef(probe.schema, probe.field) # "" \/ ~isObjectIdValid(probe.value))
             => probe.result.st = "ok"

\* the last operation was a save that went through, so that mem still
\* holds the document that was saved
IsTrackedSave == IsWrite /\ last.op = "save" /\ last.st = "ok"

\* the innermost array element enclosing the path whose _display is not
\* null in the document: where it is and what it holds
RECURSIVE EnclosingDisplay(_, _, _)
EnclosingDisplay(doc, parts, i) ==
    IF i < 1 THEN [found |-> FALSE, path |-> <<>>, value |-> Undef]
    ELSE IF IsIndex(parts[i])
            /\ ~IsNullish(get(doc, P(Join(SubSeq(parts, 1, i)), s_display)))
    THEN [found |-> TRUE, path |-> P(Join(SubSeq(parts, 1, i)), s_display),
          value |-> get(doc, P(Join(SubSeq(parts, 1, i)), s_display))]
    ELSE EnclosingDisplay(doc, parts, i - 1)

\* the label of a modified path of a save: `<display> <last segment>` when
\* an enclosing element has a _display that resolves to a label, else the
\* path itself
SaveLabel(doc, field) ==
    LET parts == Split(field)
        e == EnclosingDisplay(doc, parts, Len(parts))
        label == FullLabel(SchemaRef("Order", e.path), e.value)
    IN IF e.found /\ label.k = "prim"
       THEN label.v \o <<" ">> \o parts[Len(parts)]
       ELSE field

\* C22: in a save, the field of a Change made for the value at a modified
\* path is `<display> <last path segment>`, display being the resolved
\* _display of the innermost enclosing array element that has one; it is
\* the path itself when the path has no array index, when no enclosing
\* element has a _display, and when the _display cannot be resolved to a
\* label.
C22_SaveLabels ==
    IsTrackedSave
    => \A k \in 1..Len(last.hist.changes) :
           last.hist.changes[k].src = last.hist.changes[k].top
              => last.hist.changes[k].field
                    = SaveLabel(mem.fields, last.hist.changes[k].top)

\* C23: no tracked write raises an error out of the hooks (the patterns of
\* fieldsToTrack being sound): whatever the references and the prior
\* snapshot are like, the hook of a save, of a create and of a query-update
\* ends without error, and the write is then carried out.
C23_NoRuntimeError ==
    (/\ last.op \in {"create", "save", "update"}
     /\ \A n \in 1..Len(last.input) :
            shouldTrackField(options, last.input[n].path) # "throw")
    => /\ last.hook = "ok"
       /\ last.op = "update" /\ last.before.exists /\ ~last.many
             => \A n \in 1..Len(last.input) :
                    ~IsOperator(last.input[n].path)
                       => isEqual(get(db[last.id].fields, last.input[n].path),
                                  Cast(last.input[n].path, last.input[n].value))

\* entry i of the last write gives a tracked path a structured value that
\* exposes _display, and no pattern is unsound
IsDisplayEntry(i) ==
    /\ last.input[i].value.k = "obj"
    /\ HasKey(last.input[i].value, s_display)
    /\ shouldTrackField(options, last.input[i].path) = "true"
    /\ ~isObjectIdValid(Prior(last.input[i].path))

\* the display before and after the write of the value at a path
BeforeDisplay(path) == Coalesce(Prior(P(path, s_display)), Null)

AfterDisplay(value) == Coalesce(Prop(value, s_display), Null)

\* C24: for a structured value with a _display field the tracker emits
\* exactly one Change, under the label it was called with, from the
\* resolved display before to the resolved display after, when the two
\* displays differ, and no Change when they do not; the other fields of the
\* value produce no Change.
C24_DisplayChange ==
    (IsWrite /\ last.st = "ok")
    => \A i \in 1..Len(last.input) :
           IsDisplayEntry(i) =>
               LET path == last.input[i].path
                   model == SchemaRef("Order", P(path, s_display))
               IN IF isEqual(BeforeDisplay(path), AfterDisplay(last.input[i].value))
                  THEN ChangesUnder(path) = <<>>
                  ELSE /\ Len(ChangesUnder(path)) = 1
                       /\ ChangesUnder(path)[1].src = P(path, s_display)
                       /\ last.op = "update" => ChangesUnder(path)[1].field = path
                       /\ ChangesUnder(path)[1].before
                             = FullLabel(model, BeforeDisplay(path))
                       /\ ChangesUnder(path)[1].after
                             = FullLabel(model, AfterDisplay(last.input[i].value))

\* a structured value without _display whose values are strings, numbers
\* or structured values of the same kind
RECURSIVE IsPlainTree(_)
IsPlainTree(x) ==
    /\ x.k = "obj"
    /\ ~HasKey(x, s_display)
    /\ \A key \in DOMAIN x.v : x.v[key].k \in {"prim", "date"} \/ IsPlainTree(x.v[key])

\* entry i of the last write gives a tracked path such a value
IsPlainEntry(i) ==
    /\ IsPlainTree(last.input[i].value)
    /\ shouldTrackField(options, last.input[i].path) = "true"
    /\ ~isObjectIdValid(Prior(last.input[i].path))

\* a key named in fieldsNotToTrack
IsExcludedKey(key) ==
    \E n \in 1..Len(options.fieldsNotToTrack) : options.fieldsNotToTrack[n] = key

\* one Change (field, before, after, where it was read) per changed leaf of
\* a value, key by key from the i-th key on
RECURSIVE LeafChanges(_, _, _, _)
LeafChanges(value, path, label, i) ==
    IF i > Len(KeyOrder) THEN <<>>
    ELSE LET key == KeyOrder[i]
             Here ==
                 IF ~HasKey(value, key) \/ IsExcludedKey(key) THEN <<>>
                 ELSE IF value.v[key].k = "obj"
                 THEN LeafChanges(value.v[key], P(path, key), label \o <<" ">> \o key, 1)
                 ELSE IF isEqual(Prior(P(path, key)), value.v[key]) THEN <<>>
                 ELSE << <<label \o <<" ">> \o key, Coalesce(Prior(P(path, key)), Null),
                           value.v[key], P(path, key)>> >>
         IN Here \o LeafChanges(value, path, label, i + 1)

\* the Changes as (field, before, after, where it was read)
Leaves(changes) ==
    [k \in 1..Len(changes) |->
        <<changes[k].field, changes[k].before, changes[k].after, changes[k].src>>]

\* the label the hook hands to the tracker for a path
BaseLabel(path) == IF last.op = "save" THEN SaveLabel(mem.fields, path) ELSE path

\* C25: for a structured value without _display the tracker goes into every
\* key that is not named in fieldsNotToTrack, with the path extended by
\* `.key` and the label by a space and the key at every level, and emits
\* exactly one Change per changed leaf, from the leaf's prior value to its
\* new one (no array of the write having lost an element).
C25_NestedLeaves ==
    (IsWrite /\ last.st = "ok" /\ last.hist.action # "removed")
    => \A i \in 1..Len(last.input) :
           IsPlainEntry(i) =>
               SameBag(Leaves(ChangesUnder(last.input[i].path)),
                       LeafChanges(last.input[i].value, last.input[i].path,
                                   BaseLabel(last.input[i].path), 1))

\* the last write carries one array at most
HasOneArrayAtMost ==
    \A j, k \in 1..Len(last.input) :
        isArray(last.input[j].value) /\ isArray(last.input[k].value) => j = k

\* entry i of the last write gives a tracked path the scalar (string,
\* number or date) the prior snapshot holds there
IsUnchangedScalarEntry(i) ==
    /\ IsScalar(last.input[i].value)
    /\ isEqual(Prior(last.input[i].path), last.input[i].value)
    /\ shouldTrackField(options, last.input[i].path) = "true"

\* an array entry processed before entry i lost an element
RemovedBefore(i) == \E j \in 1..(i - 1) : IsArrayEntry(j) /\ Len(RemovedAt(j)) > 0

\* C26: an unchanged scalar that is processed after an array branch of the
\* same write has set the record's action to `removed` emits a stub Change,
\* before the value and after null; an unchanged scalar processed while the
\* action is not `removed` emits nothing.
C26_RemovedStub ==
    (/\ IsWrite
     /\ last.st = "ok"
     /\ HasOneArrayAtMost
     /\ \A n \in 1..Len(last.input) :
            shouldTrackField(options, last.input[n].path) # "throw")
    => \A i \in 1..Len(last.input) :
           IsUnchangedScalarEntry(i) =>
               IF RemovedBefore(i)
               THEN /\ Len(ChangesUnder(last.input[i].path)) = 1
                    /\ ChangesUnder(last.input[i].path)[1].field = BaseLabel(last.input[i].path)
                    /\ ChangesUnder(last.input[i].path)[1].before = last.input[i].value
                    /\ ChangesUnder(last.input[i].path)[1].after = Null
               ELSE ChangesUnder(last.input[i].path) = <<>>

\* entry i of the last write gives a tracked field that declares no
\* reference a changed value, the new or the prior value being a
\* syntactically valid identifier and both being scalars or missing
IsIdentifierInPlainField(i) ==
    /\ SchemaRef("Order", last.input[i].path) = ""
    /\ shouldTrackField(options, last.input[i].path) = "true"
    /\ isObjectIdValid(last.input[i].value) \/ isObjectIdValid(Prior(last.input[i].path))
    /\ last.input[i].value.k \in {"prim", "hex", "oid", "null"}
    /\ Prior(last.input[i].path).k \in {"prim", "hex", "oid", "null", "undefined"}
    /\ ToStr(last.input[i].value) # ToStr(Prior(last.input[i].path))

\* C27: a changed tracked scalar whose new or prior value is a syntactically
\* valid identifier, in a field that declares no reference target, raises
\* no error and is diffed as any scalar: the record holds one Change for
\* it, from the raw prior value to the raw new value.
C27_NoReferenceNoFetch ==
    IsWrite
    => \A i \in 1..Len(last.input) :
           IsIdentifierInPlainField(i) =>
               /\ last.st = "ok"
               /\ Len(ChangesUnder(last.input[i].path)) = 1
               /\ ChangesUnder(last.input[i].path)[1].before
                     = Coalesce(Prior(last.input[i].path), Null)
               /\ ChangesUnder(last.input[i].path)[1].after = last.input[i].value

\* a sequence in the opposite order
Reverse(s) == [k \in 1..Len(s) |-> s[Len(s) + 1 - k]]

\* the paths of the entries of the last write
InputPaths == [k \in 1..Len(last.input) |-> last.input[k].path]

\* what a History records: its action and its Changes as (field, before,
\* after)
Fields(changes) ==
    [k \in 1..Len(changes) |-> <<changes[k].field, changes[k].before, changes[k].after>>]

SameRecord(h, g) ==
    /\ h.action = g.action
    /\ SameBag(Fields(h.changes), Fields(g.changes))

\* the outcome of the hook of the last write had it processed the same
\* entries, against the same snapshots, in the opposite order
Reordered ==
    IF last.op = "update"
    THEN preUpdateDiff(options, Reverse(last.input), Q(last.by, last.skip),
                       last.before, last.hist.at)
    ELSE preSave(options,
                 [mem EXCEPT !.modified = Reverse(InputPaths), !.changedBy = last.by,
                             !.history = last.before.history],
                 last.before, last.hist.at)

\* C28: the record a write produces does not depend on the order in which
\* the modified paths or the keys of the update are processed: processing
\* the same entries against the same snapshots in the opposite order gives
\* a record with the same action and the same multiset of Changes.
C28_OrderIndependent ==
    ((IsTrackedSave \/ (IsWrite /\ last.op = "update" /\ last.st = "ok")) /\ last.built)
    => /\ Reordered.st = "ok"
       /\ Reordered.built
       /\ SameRecord(Record(Reordered.hist), last.hist)

\* C29: the Changes a record holds for the removed (or added) elements of
\* an array stand in the order of those elements in the array, whichever
\* of the label resolutions awaited side by side ends first.
C29_SourceOrder ==
    (/\ IsWrite
     /\ last.st = "ok"
     /\ \A n \in 1..Len(last.input) :
            shouldTrackField(options, last.input[n].path) # "throw")
    => \A i \in 1..Len(last.input) :
           IsArrayEntry(i) =>
               Sides(ChangesUnder(last.input[i].path))
                  = IF Len(RemovedAt(i)) > 0
                    THEN RemovalSides(last.input[i].path, RemovedAt(i))
                    ELSE AdditionSides(last.input[i].path, AddedAt(i))

\* C30: a save records every changed leaf at most once: the record never
\* holds two Changes for the value at one path that were made while
\* processing two different modified paths (a path and one of its
\* descendants).
C30_LeafOnce ==
    IsTrackedSave
    => \A k, m \in 1..Len(last.hist.changes) :
           last.hist.changes[k].src = last.hist.changes[m].src
              => last.hist.changes[k].top = last.hist.changes[m].top

====
